---- MODULE Spec2Model ----
(***************************************************************************)
(* Talking Piano: pitch events -> note quantizer -> playback / MIDI export *)
(* and the frame scanners that publish the pitch events.                   *)
(*                                                                         *)
(* Units.  A pitch event carries time as the string time.toFixed(3), read  *)
(* back with parseFloat: times are whole milliseconds, held here as        *)
(* integers (time 0.025 s is 25).  Frequencies are held in hundredths of   *)
(* a hertz (440 Hz is 44000), the grain of Math.round(hz * 100) / 100.     *)
(***************************************************************************)
EXTENDS Integers, Sequences, FiniteSets, TLC

\* ------------------------------------------------------------------ bounds
MaxEvents == 3
MaxRuns == 1
MaxOverlaps == 1
MaxOverlapEvents == 2
MaxBufferLength == 5121
MaxSpikes == 3
MaxCombTeeth == 12
MaxFrameLength == 10
MaxCalls == 2
MaxContexts == 3
MaxGets == 2
MaxStarts == 2
MaxStops == 1
MaxMicFrames == 2

\* --------------------------------------------------------- input alphabets
\* Gaps between consecutive pitch events (ms) and the frequencies they carry.
TimeGaps == {0, 1, 4, 20, 21, 300}
HzInputs == {44000}
\* Frequencies across and beyond the range of MIDI notes: 5 Hz, note 0,
\* the detectors' limits 50, 1000 and 4000 Hz, note 127, 13 and 20 kHz.
HzRange == {500, 818, 5000, 44000, 100000, 400000, 1254400, 1300000, 2000000}
\* Audio buffers: lengths at and next to the multiples of the hop size;
\* sample rates, two of them malformed.
SampleRates == {-1, 0, 44100, 48000}
\* What the buffer holds: silence, a steady tone with two overtones, a steady
\* tone above the musical range, a tone that sets in after a silent start,
\* two steady tones a fifth apart, tones at the edges of the detectors'
\* ranges.
Signals == {"silence", "tone", "shrill", "onset", "chord", "edge"}

\* Spectra handed to findSpectralPeaks: silent but for a few spikes, at the
\* ends of the range of bins it looks at, next to each other, and at
\* multiples of each other; amplitudes in thousandths, below, at and above
\* the default sensitivity.
SpectrumLength == 100
SpikeBins == {9, 10, 15, 20, 30, 40, 83, 90}
SpikeAmplitudes == {49, 50, 300}
PeakSampleRates == {8000, 44100, 192000}
\* Spectra with a comb of teeth seven bins apart, rising, falling or level.
CombSpacing == 7
CombShapes == {"rising", "falling", "level"}

\* Frames handed to autoCorrelate: samples in thousandths, silent, faint
\* and full scale.
FrameSamples == {0, 10, 1000}
FrameSampleRates == {44100}

\* The app under interleaved events: the files that get loaded, the
\* positions of the sensitivity slider (0.05 and 0.2) and the tabs.
AppBufferLengths == {4096, 4097, 5121}
AppSampleRates == {44100}
AppSignals == {"chord", "onset"}
Sensitivities == {50, 200}
Tabs == {"microphone", "upload", "waveform", "spectrogram"}
\* What autoCorrelate makes of a frame of the microphone, in hundredths of
\* Hz: no pitch, 40 Hz, the note 69 and the note 72.
MicHz == {-100, 4000, 44000, 52325}
\* The recording as decodeAudioData returns it.
RecordedLengths == {4097}
RecordedSampleRates == {48000}
\* How the recorded blob fares: decoded, rejected by decodeAudioData, empty.
DecodeOutcomes == {"decoded", "failed", "empty"}
\* The time between two animation frames (ms).
frameInterval == 16

\* playbackRef.current: no object yet, or an object with its active flag.
NoRef == "null"
\* Stand-ins for the non-numbers a conversion can return; both lie outside
\* every range of note numbers.
NullNote == -1000
NaNNote == -2000

\* ------------------------------------------------------------- arithmetic
\* Math.round(n / d) for d > 0: nearest integer, halves towards +infinity.
Round(n, d) == (2 * n + d) \div (2 * d)

Max(a, b) == IF a >= b THEN a ELSE b
Min(a, b) == IF a <= b THEN a ELSE b

RECURSIVE Flatten(_)
Flatten(ss) == IF ss = <<>> THEN <<>> ELSE ss[1] \o Flatten(Tail(ss))

\* Without(s, k): s without its k-th element.
Without(s, k) == SubSeq(s, 1, k - 1) \o SubSeq(s, k + 1, Len(s))

\* --------------------------------------------------- frequency -> MIDI note
\* noteEdges[n + 1] is the lowest frequency (hundredths of Hz, rounded up)
\* for which 69 + 12 * log2(hz / 440) rounds to n or more, n = 0 .. 128.
noteEdges ==
  << 795, 842, 892, 945, 1001, 1061, 1124, 1191, 1261, 1336, 1416, 1500,
     1589, 1684, 1784, 1890, 2002, 2121, 2247, 2381, 2522, 2672, 2831,
     2999, 3178, 3367, 3567, 3779, 4004, 4242, 4494, 4761, 5044, 5344,
     5662, 5998, 6355, 6733, 7133, 7557, 8007, 8483, 8987, 9521, 10088,
     10687, 11323, 11996, 12709, 13465, 14266, 15114, 16013, 16965, 17974,
     19042, 20175, 21374, 22645, 23992, 25418, 26930, 28531, 30227, 32025,
     33929, 35947, 38084, 40349, 42748, 45290, 47983, 50836, 53859, 57061,
     60454, 64049, 67858, 71893, 76168, 80697, 85495, 90579, 95965, 101672,
     107717, 114122, 120908, 128098, 135715, 143785, 152335, 161393,
     170990, 181158, 191930, 203343, 215434, 228244, 241816, 256195,
     271430, 287570, 304669, 322786, 341980, 362315, 383859, 406685,
     430867, 456488, 483632, 512390, 542859, 575139, 609338, 645571,
     683959, 724629, 767718, 813369, 861734, 912976, 967264, 1024780,
     1085717, 1150277, 1218676, 1291142 >>

\* Math.round(69 + 12 * Math.log2(hz / 440)); every result below 0 is
\* reported as -1 and every result above 127 as 128.
MidiFloatRounded(hz) ==
  Cardinality({n \in DOMAIN noteEdges : noteEdges[n] <= hz}) - 1

\* utils/pitchDetection hzToMidi: no guard, no clamp.
hzToMidi(hz) == IF hz <= 0 THEN NaNNote ELSE MidiFloatRounded(hz)

\* MIDIGenerator's local hzToMidi: null for hz <= 0, clamped to [0, 127].
genHzToMidi(hz) ==
  IF hz <= 0 THEN NullNote ELSE Max(0, Min(127, MidiFloatRounded(hz)))

\* ------------------------------------------------------------ autoCorrelate
\* Frequencies are in hundredths of Hz: the sentinel -1, and the Infinity
\* that a division by 0 gives.
NoPitch == -100
InfiniteHz == 1000000000

Abs(x) == IF x < 0 THEN 0 - x ELSE x

\* The sum of val * val over the buffer, in millionths.
RECURSIVE SumSquares(_)
SumSquares(buffer) ==
  IF buffer = <<>> THEN 0
  ELSE buffer[1] * buffer[1] + SumSquares(Tail(buffer))

\* rms < 0.0005, that is sum / SIZE < 0.00000025; for SIZE = 0 the rms is
\* NaN and the comparison is false.
tooWeak(buffer) == 4 * SumSquares(buffer) < Len(buffer)

MAX_SAMPLES(buffer) == Len(buffer) \div 2

\* The inner loop: sum of |buffer[i] - buffer[i + offset]|, i from 0.
RECURSIVE SumAbsDiff(_, _, _)
SumAbsDiff(buffer, offset, i) ==
  IF i < MAX_SAMPLES(buffer)
  THEN Abs(buffer[i + 1] - buffer[i + offset + 1])
         + SumAbsDiff(buffer, offset, i + 1)
  ELSE 0

\* correlation = 1 - sum / MAX_SAMPLES, held as correlation * 1000 *
\* MAX_SAMPLES so that 1 is 1000 * MAX_SAMPLES and 0.9 is 900 * MAX_SAMPLES.
Correlation(buffer, offset) ==
  1000 * MAX_SAMPLES(buffer) - SumAbsDiff(buffer, offset, 0)

\* CorrelateStep as it would be had every acceptable offset replaced the
\* best one found so far.
CorrelateStepLastFound(st, buffer, offset) ==
  LET correlation == Correlation(buffer, offset)
  IN [best_offset |->
        IF /\ correlation > 900 * MAX_SAMPLES(buffer)
           /\ correlation > st.lastCorrelation
        THEN offset ELSE st.best_offset,
      best_correlation |->
        IF /\ correlation > 900 * MAX_SAMPLES(buffer)
           /\ correlation > st.lastCorrelation
        THEN correlation ELSE st.best_correlation,
      lastCorrelation |-> correlation]

\* One iteration of the loop over offset;
\* st = [best_offset, best_correlation, lastCorrelation].
CorrelateStep(st, buffer, offset) ==
  LET correlation == Correlation(buffer, offset)
  IN [best_offset |->
        IF /\ correlation > 900 * MAX_SAMPLES(buffer)
           /\ correlation > st.lastCorrelation
           /\ correlation > st.best_correlation
        THEN offset ELSE st.best_offset,
      best_correlation |->
        IF /\ correlation > 900 * MAX_SAMPLES(buffer)
           /\ correlation > st.lastCorrelation
           /\ correlation > st.best_correlation
        THEN correlation ELSE st.best_correlation,
      lastCorrelation |-> correlation]

RECURSIVE CorrelateLoop(_, _, _)
CorrelateLoop(buffer, offset, st) ==
  IF offset < MAX_SAMPLES(buffer)
  THEN CorrelateLoop(buffer, offset + 1, CorrelateStep(st, buffer, offset))
  ELSE st

\* BestOffset as it would be had lastCorrelation started at 0.
BestOffsetLastCorrelationZero(buffer) ==
  CorrelateLoop(buffer, 0,
                [best_offset |-> -1, best_correlation |-> 0,
                 lastCorrelation |-> 0]).best_offset

\* best_offset after the loop (-1: none found).
BestOffset(buffer) ==
  CorrelateLoop(buffer, 0,
                [best_offset |-> -1, best_correlation |-> 0,
                 lastCorrelation |-> 1000 * MAX_SAMPLES(buffer)]).best_offset

\* autoCorrelate as it would be had it answered 0 Hz for a weak signal.
autoCorrelateWeakIsZero(buffer, sampleRate) ==
  IF tooWeak(buffer) THEN 0
  ELSE IF BestOffset(buffer) = -1 THEN NoPitch
  ELSE IF BestOffset(buffer) = 0 THEN InfiniteHz
  ELSE Round(sampleRate * 100, BestOffset(buffer))

autoCorrelate(buffer, sampleRate) ==
  IF tooWeak(buffer) THEN NoPitch
  ELSE IF BestOffset(buffer) = -1 THEN NoPitch
  ELSE IF BestOffset(buffer) = 0 THEN InfiniteHz
  ELSE Round(sampleRate * 100, BestOffset(buffer))

\* ------------------------------------------------ MIDIPlayer.playMIDI, pure
timeWindowSize == 20

\* pitchData.map(...): time parsed, midi added.
Notes(pd) ==
  [k \in 1..Len(pd) |->
     [time |-> pd[k].time, midi |-> hzToMidi(pd[k].hz), hz |-> pd[k].hz]]

\* GroupStep as it would be had the new group kept the old start time.
GroupStepStaleTime(st, note) ==
  IF note.time - st.currentTime < timeWindowSize
  THEN [st EXCEPT !.currentGroup = Append(@, note)]
  ELSE [noteGroups |->
          IF Len(st.currentGroup) > 0
          THEN Append(st.noteGroups,
                      [time |-> st.currentTime, notes |-> st.currentGroup])
          ELSE st.noteGroups,
        currentGroup |-> <<note>>,
        currentTime |-> st.currentTime]

\* One iteration of the grouping loop.
GroupStep(st, note) ==
  IF note.time - st.currentTime < timeWindowSize
  THEN [st EXCEPT !.currentGroup = Append(@, note)]
  ELSE [noteGroups |->
          IF Len(st.currentGroup) > 0
          THEN Append(st.noteGroups,
                      [time |-> st.currentTime, notes |-> st.currentGroup])
          ELSE st.noteGroups,
        currentGroup |-> <<note>>,
        currentTime |-> note.time]

RECURSIVE GroupLoop(_, _, _)
GroupLoop(notes, i, st) ==
  IF i > Len(notes) THEN st
  ELSE GroupLoop(notes, i + 1, GroupStep(st, notes[i]))

\* NoteGroups as it would be without the flush after the loop.
NoteGroupsNoFlush(notes) ==
  GroupLoop(notes, 1,
            [noteGroups |-> <<>>, currentGroup |-> <<>>,
             currentTime |-> 0]).noteGroups

\* The grouping loop followed by the flush of the last group.
NoteGroups(notes) ==
  LET st == GroupLoop(notes, 1,
                      [noteGroups |-> <<>>, currentGroup |-> <<>>,
                       currentTime |-> 0])
  IN IF Len(st.currentGroup) > 0
     THEN Append(st.noteGroups,
                 [time |-> st.currentTime, notes |-> st.currentGroup])
     ELSE st.noteGroups

\* group.notes.forEach(instrument.play(note.midi, startTime + group.time)).
PlayedChord(group) ==
  [time |-> group.time,
   midi |-> [k \in 1..Len(group.notes) |-> group.notes[k].midi]]

\* ------------------------------------------ MIDIGenerator.generateMIDI, pure
BPM == 120
ticksPerBeat == 128
\* ticksPerBeat / (60 / BPM) = 256
ticksPerSecond == (ticksPerBeat * BPM) \div 60
genTimeWindowSize == 20
defaultDurationTicks == 16
minDurationTicks == 8
maxDurationTicks == 64
chordVelocity == 80

PitchGroupStep(cur, item) ==
  IF item.time > cur.currentGroup.startTime + genTimeWindowSize
  THEN [pitchGroups |->
          IF Len(cur.currentGroup.pitches) > 0
          THEN Append(cur.pitchGroups, cur.currentGroup)
          ELSE cur.pitchGroups,
        currentGroup |-> [startTime |-> item.time, pitches |-> <<item.hz>>]]
  ELSE [cur EXCEPT !.currentGroup.pitches = Append(@, item.hz)]

RECURSIVE PitchGroupLoop(_, _, _)
PitchGroupLoop(pd, i, cur) ==
  IF i > Len(pd) THEN cur
  ELSE PitchGroupLoop(pd, i + 1, PitchGroupStep(cur, pd[i]))

PitchGroups(pd) ==
  LET cur == PitchGroupLoop(pd, 1,
                [pitchGroups |-> <<>>,
                 currentGroup |-> [startTime |-> 0, pitches |-> <<>>]])
  IN IF Len(cur.currentGroup.pitches) > 0
     THEN Append(cur.pitchGroups, cur.currentGroup)
     ELSE cur.pitchGroups

\* Keep the first occurrence of every element (new Set / indexOf filter).
RECURSIVE Unique(_)
Unique(s) ==
  IF s = <<>> THEN <<>>
  ELSE LET rest == Unique(SubSeq(s, 1, Len(s) - 1))
           x == s[Len(s)]
       IN IF \E k \in 1..Len(rest) : rest[k] = x THEN rest
          ELSE Append(rest, x)

RECURSIVE SortAsc(_)
SortAsc(s) ==
  IF s = <<>> THEN <<>>
  ELSE LET m == CHOOSE k \in 1..Len(s) : \A j \in 1..Len(s) : s[k] <= s[j]
       IN <<s[m]>> \o SortAsc(SubSeq(s, 1, m - 1) \o SubSeq(s, m + 1, Len(s)))

\* uniquePitches.map(hzToMidi).filter(not null).filter(first index).sort().
MidiNotes(group) ==
  LET uniquePitches == Unique(group.pitches)
      mapped == [k \in 1..Len(uniquePitches) |-> genHzToMidi(uniquePitches[k])]
      notNull == SelectSeq(mapped, LAMBDA n : n # NullNote)
  IN SortAsc(Unique(notNull))

targetTimeTicks(group) == Round(group.startTime * ticksPerSecond, 1000)

\* durationTicks as it would be without the lower clamp.
durationTicksNoFloor(groups, i) ==
  IF i + 1 <= Len(groups)
  THEN Min(maxDurationTicks,
           Round((groups[i + 1].startTime - groups[i].startTime)
                   * ticksPerSecond, 1000))
  ELSE defaultDurationTicks

\* Duration of group i of groups, in ticks.
durationTicks(groups, i) ==
  IF i + 1 <= Len(groups)
  THEN Max(minDurationTicks,
           Min(maxDurationTicks,
               Round((groups[i + 1].startTime - groups[i].startTime)
                       * ticksPerSecond, 1000)))
  ELSE defaultDurationTicks

\* One iteration of the track loop: st = [track, currentTimeTicks].
TrackStep(st, groups, i) ==
  LET midiNotes == MidiNotes(groups[i])
      target == targetTimeTicks(groups[i])
      rested ==
        IF target > st.currentTimeTicks
        THEN [track |-> Append(st.track,
                          [pitch |-> <<"C4">>,
                           duration |-> target - st.currentTimeTicks,
                           velocity |-> 0]),
              currentTimeTicks |-> target]
        ELSE st
      dur == durationTicks(groups, i)
  IN IF Len(midiNotes) = 0 THEN st
     ELSE [track |-> Append(rested.track,
                       [pitch |-> midiNotes, duration |-> dur,
                        velocity |-> chordVelocity]),
           currentTimeTicks |-> rested.currentTimeTicks + dur]

RECURSIVE TrackLoop(_, _, _)
TrackLoop(groups, i, st) ==
  IF i > Len(groups) THEN st
  ELSE TrackLoop(groups, i + 1, TrackStep(st, groups, i))

Track(groups) ==
  TrackLoop(groups, 1, [track |-> <<>>, currentTimeTicks |-> 0]).track

\* ------------------------------------------------------- the frame scanners
windowSize == 2048
hopSize == 512
fftSize == 4096
spectralHopSize == 512
yieldEvery == 50

\* ScanPositions as it would be had the loop run to the end of the buffer.
RECURSIVE ScanPositionsNoWindow(_, _, _, _)
ScanPositionsNoWindow(i, length, win, hop) ==
  IF i < length
  THEN <<i>> \o ScanPositionsNoWindow(i + hop, length, win, hop)
  ELSE <<>>

\* for (let i = 0; i < length - win; i += hop): the positions analysed from i.
RECURSIVE ScanPositions(_, _, _, _)
ScanPositions(i, length, win, hop) ==
  IF i < length - win
  THEN <<i>> \o ScanPositions(i + hop, length, win, hop)
  ELSE <<>>

\* The best_offset autoCorrelate arrives at on the window that starts at
\* sample i of a buffer holding the given signal (-1: none, it returns -1).
AutoCorrelateAt(signal, i) ==
  CASE signal = "silence" -> -1
    [] signal = "tone" -> 100
    [] signal = "shrill" -> 10
    [] signal = "onset" -> IF i >= 2 * hopSize THEN 100 ELSE -1
    [] signal = "chord" -> 100
    [] signal = "edge" -> IF i = 0 THEN 882 ELSE 48

\* The local maxima (bin and amplitude in thousandths, in ascending bin
\* order) of the spectrum of the window that starts at sample i.
MaximaAt(signal, i) ==
  CASE signal = "silence" -> <<>>
    [] signal = "tone" -> <<[bin |-> 41, amplitude |-> 500],
                            [bin |-> 82, amplitude |-> 60],
                            [bin |-> 123, amplitude |-> 20]>>
    [] signal = "shrill" -> <<[bin |-> 500, amplitude |-> 60]>>
    [] signal = "onset" -> IF i >= hopSize
                           THEN <<[bin |-> 41, amplitude |-> 500]>>
                           ELSE <<>>
    [] signal = "chord" -> <<[bin |-> 41, amplitude |-> 500],
                             [bin |-> 61, amplitude |-> 100]>>
    [] signal = "edge" -> <<[bin |-> 371, amplitude |-> 300],
                            [bin |-> 380, amplitude |-> 200]>>

\* FrameTime as it would be had the frame been stamped with its window's end.
FrameTimeAtWindowEnd(i, sampleRate) == Round((i + windowSize) * 1000, sampleRate)

\* (i / sampleRate).toFixed(3), in milliseconds.
FrameTime(i, sampleRate) == Round(i * 1000, sampleRate)

\* MonoFrame as it would be without the test of the pitch range.
MonoFrameUnfiltered(i, sampleRate, off) ==
  IF off > 0 /\ sampleRate > 0
  THEN <<[time |-> FrameTime(i, sampleRate),
          hz |-> Round(sampleRate * 100, off)]>>
  ELSE <<>>

\* PitchDetector: the event of the frame at i when autoCorrelate found
\* best_offset off (hz = sampleRate / off, or -1), kept if 50 < hz < 1000.
MonoFrame(i, sampleRate, off) ==
  IF off > 0 /\ sampleRate > 50 * off /\ sampleRate < 1000 * off
  THEN <<[time |-> FrameTime(i, sampleRate),
          hz |-> Round(sampleRate * 100, off)]>>
  ELSE <<>>

\* isHarmonic(freq, fundamental) on two peaks of one spectrum: the ratio of
\* the frequencies is the ratio of the bins.
isHarmonic(bin, fundamentalBin) ==
  LET nearestInteger == Round(bin, fundamentalBin)
      diff == bin - nearestInteger * fundamentalBin
      absDiff == IF diff < 0 THEN -diff ELSE diff
  IN 10 * absDiff < fundamentalBin /\ nearestInteger > 1

\* Stable insertion of peak p into a list sorted by descending amplitude.
RECURSIVE InsertByAmplitude(_, _)
InsertByAmplitude(sorted, p) ==
  IF sorted = <<>> THEN <<p>>
  ELSE IF sorted[Len(sorted)].amplitude >= p.amplitude THEN Append(sorted, p)
  ELSE Append(InsertByAmplitude(SubSeq(sorted, 1, Len(sorted) - 1), p),
              sorted[Len(sorted)])

RECURSIVE SortByAmplitude(_)
SortByAmplitude(peaks) ==
  IF peaks = <<>> THEN <<>>
  ELSE InsertByAmplitude(SortByAmplitude(SubSeq(peaks, 1, Len(peaks) - 1)),
                         peaks[Len(peaks)])

RECURSIVE InsertByBin(_, _)
InsertByBin(sorted, p) ==
  IF sorted = <<>> THEN <<p>>
  ELSE IF sorted[Len(sorted)].bin <= p.bin THEN Append(sorted, p)
  ELSE Append(InsertByBin(SubSeq(sorted, 1, Len(sorted) - 1), p),
              sorted[Len(sorted)])

RECURSIVE SortByFrequency(_)
SortByFrequency(peaks) ==
  IF peaks = <<>> THEN <<>>
  ELSE InsertByBin(SortByFrequency(SubSeq(peaks, 1, Len(peaks) - 1)),
                   peaks[Len(peaks)])

maxPeaks == 10
edgeBins == 10
peakReach == 5

\* spectrum[i] of the Float32Array (bins count from 0).
BinValue(spectrum, i) == spectrum[i + 1]

\* No bin within five bins on either side is as high as bin i.
isMax(spectrum, i) ==
  \A j \in (0 - peakReach)..peakReach :
    j = 0 \/ ~(BinValue(spectrum, i + j) >= BinValue(spectrum, i))

\* for (let i = 10; i < spectrum.length - 10; i++): the local maxima from
\* bin i on, in ascending bin order.
RECURSIVE LocalMaximaFrom(_, _)
LocalMaximaFrom(spectrum, i) ==
  IF i < Len(spectrum) - edgeBins
  THEN (IF isMax(spectrum, i)
        THEN <<[bin |-> i, amplitude |-> BinValue(spectrum, i)]>>
        ELSE <<>>) \o LocalMaximaFrom(spectrum, i + 1)
  ELSE <<>>

LocalMaxima(spectrum) == LocalMaximaFrom(spectrum, edgeBins)
\* useState(0.05), in thousandths.
defaultSensitivity == 50

\* KeptPeaks as it would be had the peaks been cut to ten without the sort.
KeptPeaksUnsorted(maxima, sampleRate, threshold) ==
  LET kept(p) == /\ ~(p.amplitude < threshold)
                 /\ p.bin * sampleRate >= 50 * fftSize
                 /\ p.bin * sampleRate <= 4000 * fftSize
      unsorted == SelectSeq(maxima, kept)
  IN SubSeq(unsorted, 1, Min(maxPeaks, Len(unsorted)))

\* findSpectralPeaks from the local maxima of a frame on: skip the values
\* below the threshold, keep 50 <= bin * sampleRate / fftSize <= 4000, sort
\* by descending amplitude, keep the first ten.
KeptPeaks(maxima, sampleRate, threshold) ==
  LET kept(p) == /\ ~(p.amplitude < threshold)
                 /\ p.bin * sampleRate >= 50 * fftSize
                 /\ p.bin * sampleRate <= 4000 * fftSize
      sorted == SortByAmplitude(SelectSeq(maxima, kept))
  IN SubSeq(sorted, 1, Min(maxPeaks, Len(sorted)))

findSpectralPeaks(spectrum, sampleRate, threshold) ==
  KeptPeaks(LocalMaxima(spectrum), sampleRate, threshold)

\* FilterLoop as it would be had an accepted fundamental not marked its
\* harmonics as used.
RECURSIVE FilterLoopNoMarking(_, _, _)
FilterLoopNoMarking(sorted, i, st) ==
  IF i > Len(sorted) THEN st.fundamentals
  ELSE IF i \in st.used THEN FilterLoopNoMarking(sorted, i + 1, st)
  ELSE LET candidate == sorted[i]
           isFundamental ==
             ~\E j \in 1..(i - 1) :
                 j \notin st.used /\ isHarmonic(candidate.bin, sorted[j].bin)
       IN IF isFundamental
          THEN FilterLoopNoMarking(sorted, i + 1,
                 [fundamentals |-> Append(st.fundamentals, candidate),
                  used |-> st.used \cup {i}])
          ELSE FilterLoopNoMarking(sorted, i + 1, st)

\* FilterLoop as it would be had a candidate been tested against every
\* lower peak, excluded ones included.
RECURSIVE FilterLoopAnyLowerPeak(_, _, _)
FilterLoopAnyLowerPeak(sorted, i, st) ==
  IF i > Len(sorted) THEN st.fundamentals
  ELSE LET candidate == sorted[i]
           isFundamental ==
             ~\E j \in 1..(i - 1) : isHarmonic(candidate.bin, sorted[j].bin)
       IN IF isFundamental
          THEN FilterLoopAnyLowerPeak(sorted, i + 1,
                 [fundamentals |-> Append(st.fundamentals, candidate),
                  used |-> st.used \cup {i}])
          ELSE FilterLoopAnyLowerPeak(sorted, i + 1, st)

\* filterHarmonics: st = [fundamentals, used], i the index into sorted.
RECURSIVE FilterLoop(_, _, _)
FilterLoop(sorted, i, st) ==
  IF i > Len(sorted) THEN st.fundamentals
  ELSE IF i \in st.used THEN FilterLoop(sorted, i + 1, st)
  ELSE LET candidate == sorted[i]
           isFundamental ==
             ~\E j \in 1..(i - 1) :
                 j \notin st.used /\ isHarmonic(candidate.bin, sorted[j].bin)
       IN IF isFundamental
          THEN FilterLoop(sorted, i + 1,
                 [fundamentals |-> Append(st.fundamentals, candidate),
                  used |-> st.used \cup {i} \cup
                           {j \in (i + 1)..Len(sorted) :
                              isHarmonic(sorted[j].bin, candidate.bin)}])
          ELSE FilterLoop(sorted, i + 1, st)

\* filterHarmonics as it would be without the sort by frequency.
filterHarmonicsUnsorted(peaks) ==
  IF Len(peaks) = 0 THEN <<>>
  ELSE FilterLoop(peaks, 1, [fundamentals |-> <<>>, used |-> {}])

filterHarmonics(peaks) ==
  IF Len(peaks) = 0 THEN <<>>
  ELSE FilterLoop(SortByFrequency(peaks), 1,
                  [fundamentals |-> <<>>, used |-> {}])

\* Math.min(127, Math.round(peak.amplitude * 127)), amplitude in thousandths.
Velocity(amplitude) == Min(127, Round(amplitude * 127, 1000))

\* peak.frequency = bin * sampleRate / fftSize, in hundredths of Hz.
PeakHz(bin, sampleRate) == Round(bin * sampleRate * 25, fftSize \div 4)

\* SpectralPitchDetector: the notes of the frame at i, already flattened.
SpectralFrame(i, sampleRate, threshold, maxima) ==
  LET kept == filterHarmonics(KeptPeaks(maxima, sampleRate, threshold))
  IN [k \in 1..Len(kept) |->
        [time |-> FrameTime(i, sampleRate),
         hz |-> PeakHz(kept[k].bin, sampleRate),
         midi |-> hzToMidi(PeakHz(kept[k].bin, sampleRate)),
         velocity |-> Velocity(kept[k].amplitude)]]

\* The positions the spectral loop analyses from i before it next yields
\* (after a frame with i % (hopSize * 50) = 0) or ends.
RECURSIVE SpectralSegment(_, _)
SpectralSegment(i, length) ==
  IF i < length - fftSize
  THEN IF i % (spectralHopSize * yieldEvery) = 0 THEN <<i>>
       ELSE <<i>> \o SpectralSegment(i + spectralHopSize, length)
  ELSE <<>>

\* ------------------------------------------------------------------ state
VARIABLES
  pitchData,     \* App: the published pitch events
  instrument,    \* MIDIPlayer: soundfont loaded
  isPlaying,     \* MIDIPlayer state
  playbackRef,   \* MIDIPlayer: playbackRef.current: NoRef, "active", "inactive"
  runs,          \* MIDIPlayer: the playMIDI invocations, oldest first
  playResult,    \* how the last playMIDI call left its synchronous part
  genResult,     \* how the last generateMIDI call ended
  pitchGroups,   \* MIDIGenerator: groups of the last generateMIDI call
  track,         \* MIDIGenerator: events of the last exported track
  audioBuffer,   \* App: activeAudioBuffer, [present, length, sampleRate, signal]
  isDetecting,   \* SpectralPitchDetector state
  spectral,      \* SpectralPitchDetector: the detectPitches call in flight
  scanned,       \* the last completed scan: its input, frames and result
  peakInput,     \* arguments of findSpectralPeaks: [spectrum, sampleRate, threshold]
  peaks,         \* what findSpectralPeaks returned for peakInput
  fundamentals,  \* what filterHarmonics returned for peaks
  peakStage,     \* "none", "input", "peaks", "filtered"
  frame,         \* arguments of autoCorrelate: [buffer, sampleRate]
  acResult,      \* what autoCorrelate returned for frame: [status, hz]
  sensitivity,   \* SpectralPitchDetector state, in thousandths
  activeTab,     \* App state
  audioSource,   \* App state: "none", "file", "microphone"
  appDetecting,  \* App state isDetecting
  isAutoDetectingRef, \* App: isAutoDetectingRef.current
  autoRuns,      \* App: the auto-detect runs in flight, oldest first
  detached,      \* detectPitches calls in flight whose SpectralPitchDetector
                 \* has been unmounted, oldest first
  contexts,      \* the AudioContexts utils/audioContext has created, oldest
                 \* first: [state, closing, resuming]
  sharedAudioContext, \* utils/audioContext: its index in contexts, 0 for null
  gets,          \* what getAudioContext has returned since the last
                 \* closeAudioContext: [ctx, state]
  isRecording,   \* MicrophoneInput state
  livePlayback,  \* MicrophoneInput state
  micInstrument, \* MicrophoneInput: instrument loaded
  pitchesRef,    \* MicrophoneInput: pitchesRef.current
  currentNoteRef, \* MicrophoneInput: currentNoteRef.current (NullNote: null)
  starts,        \* startRecording calls waiting for getUserMedia:
                 \* [livePlayback, instrument] of their render
  loops,         \* the analyze loops with a frame requested, each with the
                 \* [livePlayback, instrument] of its closure
  animationRef,  \* the loop whose request animationRef.current holds, or 0
  mediaRecorder, \* state of mediaRecorderRef.current: "none", "recording",
                 \* "inactive"
  micContext,    \* state of audioContextRef.current: "none", "open", "closed"
  micFrames,     \* the animation frames there have been
  startTimeRef,  \* micFrames when startTimeRef.current was set
  stops,         \* stopRecording calls waiting for the recorder's stop:
                 \* [frozen, pitches]
  frameLog,      \* the last analysis frame: what it saw and did
  stopLog,       \* the last stopRecording call that ended: its callbacks
  recordings     \* the number of startRecording calls made

consumerVars == <<instrument, isPlaying, playbackRef, runs, playResult,
                  genResult, pitchGroups, track>>
scanVars == <<audioBuffer, isDetecting, spectral, scanned>>
peakVars == <<peakInput, peaks, fundamentals, peakStage>>
frameVars == <<frame, acResult>>
ctxVars == <<contexts, sharedAudioContext, gets>>
micVars == <<isRecording, livePlayback, micInstrument, pitchesRef,
             currentNoteRef, starts, loops, animationRef, mediaRecorder,
             micContext, micFrames, startTimeRef, stops, frameLog, stopLog,
             recordings>>
utilVars == <<ctxVars, micVars>>
pureVars == <<peakVars, frameVars, utilVars>>
appVars == <<sensitivity, activeTab, audioSource, appDetecting,
             isAutoDetectingRef, autoRuns, detached>>
vars == <<pitchData, consumerVars, scanVars, pureVars, appVars>>

NoBuffer == [present |-> FALSE, length |-> 0, sampleRate |-> 0,
             signal |-> "silence"]
NoSpectral == [status |-> "idle", i |-> 0, buffer |-> NoBuffer,
               sensitivity |-> 0, frames |-> <<>>, allPitches |-> <<>>]
NoScan == [by |-> "none", length |-> 0, sampleRate |-> 0, signal |-> "silence",
           threshold |-> 0, unmounted |-> FALSE, frames |-> <<>>,
           published |-> <<>>, outcome |-> "none"]

BufferLengths ==
  {n \in 0..MaxBufferLength : n % hopSize \in {0, 1}}

\* Non-decreasing event sequences of up to MaxEvents events.
RECURSIVE EventSeqs(_)
EventSeqs(n) ==
  IF n = 0 THEN {<<>>}
  ELSE LET shorter == EventSeqs(n - 1)
           full == {s \in shorter : Len(s) = n - 1}
       IN shorter \cup
          {Append(s, [time |-> (IF s = <<>> THEN 0 ELSE s[Len(s)].time) + g,
                      hz |-> h]) : s \in full, g \in TimeGaps, h \in HzInputs}

NoFrame == [buffer |-> <<>>, sampleRate |-> 0]
NoResult == [status |-> "none", hz |-> NoPitch]

\* All frames of up to n samples.
RECURSIVE Frames(_)
Frames(n) ==
  IF n = 0 THEN {<<>>}
  ELSE LET shorter == Frames(n - 1)
       IN shorter \cup {Append(b, v) : b \in {c \in shorter : Len(c) = n - 1},
                                       v \in FrameSamples}

NoPeakInput == [spectrum |-> <<>>, sampleRate |-> 0, threshold |-> 0]

\* The spectrum of the given length that is 0 but for the given spikes.
SpectrumOf(len, spikes) ==
  [i \in 1..len |->
     IF \E sp \in spikes : sp.bin = i - 1
     THEN (CHOOSE sp \in spikes : sp.bin = i - 1).amplitude
     ELSE 0]

\* Sets of up to n spikes on different bins.
RECURSIVE SpikeSets(_)
SpikeSets(n) ==
  IF n = 0 THEN {{}}
  ELSE LET smaller == SpikeSets(n - 1)
       IN smaller \cup
          UNION {{S \cup {[bin |-> b, amplitude |-> a]} :
                    b \in {c \in SpikeBins : \A sp \in S : sp.bin # c},
                    a \in SpikeAmplitudes} : S \in smaller}

Comb(n, shape) ==
  {[bin |-> edgeBins + CombSpacing * k,
    amplitude |-> CASE shape = "rising" -> 100 + 10 * k
                    [] shape = "falling" -> 300 - 10 * k
                    [] shape = "level" -> 100] : k \in 0..(n - 1)}

Spectra(maxSpikes, maxTeeth) ==
  {SpectrumOf(SpectrumLength, S) : S \in SpikeSets(maxSpikes)}
    \cup {SpectrumOf(SpectrumLength, Comb(n, shape)) :
            n \in (maxTeeth - 3)..maxTeeth, shape \in CombShapes}
    \cup {SpectrumOf(len, {[bin |-> b, amplitude |-> 300]}) :
            len \in {2 * edgeBins, 2 * edgeBins + 1}, b \in {9, 10}}

\* utils/audioContext after the module has been loaded.
ContextIdle ==
  /\ contexts = <<>>
  /\ sharedAudioContext = 0
  /\ gets = <<>>

NoFrameLog == [played |-> NullNote, stopped |-> FALSE]
NoStopLog == [calls |-> <<>>, ended |-> FALSE]

\* MicrophoneInput as it is mounted.
MicIdle ==
  /\ isRecording = FALSE
  /\ livePlayback = FALSE
  /\ micInstrument = FALSE
  /\ pitchesRef = <<>>
  /\ currentNoteRef = NullNote
  /\ starts = <<>>
  /\ loops = <<>>
  /\ animationRef = 0
  /\ mediaRecorder = "none"
  /\ micContext = "none"
  /\ micFrames = 0
  /\ startTimeRef = 0
  /\ stops = <<>>
  /\ frameLog = NoFrameLog
  /\ stopLog = NoStopLog
  /\ recordings = 0

\* ---------------------------------------------------------------- actions
LoadInstrument ==
  /\ ~instrument
  /\ instrument' = TRUE
  /\ UNCHANGED <<pitchData, isPlaying, playbackRef, runs, playResult,
                 genResult, pitchGroups, track, scanVars, pureVars, appVars>>

\* Whether one more playMIDI call is within the bounds: MaxRuns calls made
\* while no earlier call is in its loop; a call made while one is comes
\* after at most MaxOverlaps calls, on pitch data of up to MaxOverlapEvents
\* events.
WithinRuns ==
  IF \E r \in 1..Len(runs) : runs[r].status = "waiting"
  THEN Len(runs) <= MaxOverlaps /\ Len(pitchData) <= MaxOverlapEvents
  ELSE Cardinality({r \in 1..Len(runs) : ~runs[r].overlaps}) < MaxRuns

\* playMIDI up to its first await (or to its end when there is none).
PlayMIDI ==
  /\ ~isPlaying
  /\ WithinRuns
  /\ IF ~instrument \/ Len(pitchData) = 0
     THEN /\ playResult' = "returned"
          /\ UNCHANGED <<isPlaying, playbackRef, runs>>
     ELSE LET noteGroups == NoteGroups(Notes(pitchData))
              more == 1 < Len(noteGroups)
          IN /\ playbackRef' = "active"
             /\ runs' = Append(runs,
                   [noteGroups |-> noteGroups,
                    i |-> Min(1, Len(noteGroups)),
                    played |-> IF Len(noteGroups) > 0
                               THEN <<PlayedChord(noteGroups[1])>> ELSE <<>>,
                    status |-> IF more THEN "waiting" ELSE "finished",
                    stopRequested |-> FALSE,
                    overlaps |-> \E r \in 1..Len(runs) :
                                   runs[r].status = "waiting"])
             /\ isPlaying' = more
             /\ playResult' = "started"
  /\ UNCHANGED <<pitchData, instrument, genResult, pitchGroups, track,
                 scanVars, pureVars, appVars>>

\* The timer a waiting run sleeps on fires: the loop's next iteration.
PlayTimer(r) ==
  /\ runs[r].status = "waiting"
  /\ LET run == runs[r]
         i == run.i + 1
         active == playbackRef = "active"
         more == i < Len(run.noteGroups)
     IN IF ~active
        THEN /\ runs' = [runs EXCEPT ![r].status = "stopped"]
             /\ isPlaying' = FALSE
        ELSE /\ runs' = [runs EXCEPT
                  ![r].i = i,
                  ![r].played = Append(@, PlayedChord(run.noteGroups[i])),
                  ![r].status = IF more THEN "waiting" ELSE "finished"]
             /\ isPlaying' = IF more THEN isPlaying ELSE FALSE
  /\ UNCHANGED <<pitchData, instrument, playbackRef, playResult, genResult,
                 pitchGroups, track, scanVars, pureVars, appVars>>

\* stopPlayback: the object playbackRef.current holds at this moment is
\* marked inactive.  runs[r].stopRequested records, for the runs still in
\* their loop, that stopPlayback has been called.
StopPlayback ==
  /\ isPlaying
  /\ playbackRef' = IF playbackRef # NoRef THEN "inactive" ELSE playbackRef
  /\ isPlaying' = FALSE
  /\ runs' = [r \in 1..Len(runs) |->
                IF runs[r].status = "waiting"
                THEN [runs[r] EXCEPT !.stopRequested = TRUE] ELSE runs[r]]
  /\ UNCHANGED <<pitchData, instrument, playResult, genResult,
                 pitchGroups, track, scanVars, pureVars, appVars>>

GenerateMIDI ==
  /\ IF Len(pitchData) = 0
     THEN /\ genResult' = "returned"
          /\ UNCHANGED <<pitchGroups, track>>
     ELSE /\ pitchGroups' = PitchGroups(pitchData)
          /\ track' = Track(PitchGroups(pitchData))
          /\ genResult' = "done"
  /\ UNCHANGED <<pitchData, instrument, isPlaying, playbackRef, runs,
                 playResult, scanVars, pureVars, appVars>>

\* PitchDetector.detectPitches: the whole synchronous scan, then
\* onPitchDetected -> App.handlePitchDetected -> setPitchData.
DetectPitches ==
  /\ audioBuffer.present
  /\ LET sampleRate == audioBuffer.sampleRate
         length == audioBuffer.length
         frames == ScanPositions(0, length, windowSize, hopSize)
         pitches ==
           Flatten([k \in 1..Len(frames) |->
                      MonoFrame(frames[k], sampleRate,
                                AutoCorrelateAt(audioBuffer.signal, frames[k]))])
     IN /\ pitchData' = pitches
        /\ scanned' = [by |-> "mono", length |-> length,
                       sampleRate |-> sampleRate,
                       signal |-> audioBuffer.signal, threshold |-> 0,
                       unmounted |-> FALSE, frames |-> frames,
                       published |-> pitches, outcome |-> "published"]
  /\ UNCHANGED <<consumerVars, audioBuffer, isDetecting, spectral, pureVars,
                 appVars>>

\* A stretch of the spectral scan loop between two awaits: the frames from
\* position i of the captured buffer, with the captured sensitivity, up to
\* the next yield ("yielded") or to the end of the loop and the flattening
\* ("finished").
ScanStretch(i, buffer, threshold, framesSoFar, allPitches) ==
  LET segment == SpectralSegment(i, buffer.length)
      yields == segment # <<>> /\
                segment[Len(segment)] % (spectralHopSize * yieldEvery) = 0
      notes == Flatten([k \in 1..Len(segment) |->
                 SpectralFrame(segment[k], buffer.sampleRate, threshold,
                               MaximaAt(buffer.signal, segment[k]))])
  IN [status |-> IF yields THEN "yielded" ELSE "finished",
      i |-> IF yields THEN segment[Len(segment)] + spectralHopSize ELSE i,
      buffer |-> buffer,
      sensitivity |-> threshold,
      frames |-> framesSoFar \o segment,
      allPitches |-> allPitches \o notes]

\* The record of a scan that has ended with call.allPitches as its result.
ScanOf(by, unmounted, call) ==
  [by |-> by, length |-> call.buffer.length,
   sampleRate |-> call.buffer.sampleRate, signal |-> call.buffer.signal,
   threshold |-> call.sensitivity, unmounted |-> unmounted,
   frames |-> call.frames, published |-> call.allPitches,
   outcome |-> "published"]

\* The calls of a scan loop that are waiting on a timer.
InFlight ==
  Len(autoRuns) + Len(detached) + (IF spectral.status = "yielded" THEN 1 ELSE 0)

\* The cleanup of App's effect: cancelled = true in the closure of the run
\* it started (every older run has been cancelled by an earlier cleanup).
Cleanup(runsNow) ==
  [k \in 1..Len(runsNow) |-> [runsNow[k] EXCEPT !.cancelled = TRUE]]

\* App's auto-detect effect after a render in which one of audioSource,
\* activeAudioBuffer and pitchData.length has changed: the cleanup of the
\* previous effect, then the new effect, which starts a run on an uploaded
\* buffer without pitch data.  A run that meets no await has scanned no
\* frame and has ended at once ("ended").
AutoDetectEffect(source, buffer, pd, runsNow, detectingNow) ==
  LET cleaned == Cleanup(runsNow)
      first == ScanStretch(0, buffer, defaultSensitivity, <<>>, <<>>)
  IN IF source = "file" /\ buffer.present /\ Len(pd) = 0
     THEN IF first.status = "yielded"
          THEN [autoRuns |->
                  Append(cleaned,
                         [status |-> "yielded", i |-> first.i,
                          buffer |-> buffer,
                          sensitivity |-> defaultSensitivity,
                          frames |-> first.frames,
                          allPitches |-> first.allPitches,
                          cancelled |-> FALSE]),
                ref |-> TRUE, detecting |-> TRUE, ended |-> FALSE,
                scan |-> NoScan]
          ELSE [autoRuns |-> cleaned, ref |-> FALSE, detecting |-> FALSE,
                ended |-> TRUE, scan |-> ScanOf("auto", FALSE, first)]
     ELSE [autoRuns |-> cleaned, ref |-> FALSE, detecting |-> detectingNow,
           ended |-> FALSE, scan |-> NoScan]

\* onPitchDetected(flatPitches) -> App.handlePitchDetected -> setPitchData,
\* and the effect when the number of pitches has changed.
Publish(call, unmounted) ==
  LET flatPitches == call.allPitches
      effect == AutoDetectEffect(audioSource, audioBuffer, flatPitches,
                                 autoRuns, appDetecting)
  IN /\ pitchData' = flatPitches
     /\ IF Len(flatPitches) # Len(pitchData)
        THEN /\ autoRuns' = effect.autoRuns
             /\ isAutoDetectingRef' = effect.ref
             /\ appDetecting' = effect.detecting
             /\ scanned' = IF effect.ended THEN effect.scan
                           ELSE ScanOf("spectral", unmounted, call)
        ELSE /\ scanned' = ScanOf("spectral", unmounted, call)
             /\ UNCHANGED <<autoRuns, isAutoDetectingRef, appDetecting>>

\* A stretch of SpectralPitchDetector.detectPitches between two awaits, in
\* the mounted component.
SpectralRun(i, buffer, threshold, framesSoFar, allPitches) ==
  LET call == ScanStretch(i, buffer, threshold, framesSoFar, allPitches)
  IN IF call.status = "yielded"
     THEN /\ spectral' = call
          /\ isDetecting' = TRUE
          /\ UNCHANGED <<pitchData, scanned, autoRuns, isAutoDetectingRef,
                         appDetecting>>
     ELSE /\ spectral' = NoSpectral
          /\ isDetecting' = FALSE
          /\ Publish(call, FALSE)

SpectralDetect ==
  /\ activeTab = "spectrogram"
  /\ audioBuffer.present
  /\ ~isDetecting
  /\ InFlight < MaxCalls
  /\ SpectralRun(0, audioBuffer, sensitivity, <<>>, <<>>)
  /\ UNCHANGED <<consumerVars, audioBuffer, pureVars, sensitivity, activeTab,
                 audioSource, detached>>

SpectralResume ==
  /\ spectral.status = "yielded"
  /\ SpectralRun(spectral.i, spectral.buffer, spectral.sensitivity,
                 spectral.frames, spectral.allPitches)
  /\ UNCHANGED <<consumerVars, audioBuffer, pureVars, sensitivity, activeTab,
                 audioSource, detached>>

\* DetachedResume as it would be had the loop read the buffer and the
\* sensitivity of the moment instead of those it started with.
DetachedResumeLiveProps(d) ==
  /\ d \in 1..Len(detached)
  /\ LET call == ScanStretch(detached[d].i, audioBuffer, sensitivity,
                             detached[d].frames, detached[d].allPitches)
     IN IF call.status = "yielded"
        THEN /\ detached' = [detached EXCEPT ![d] = call]
             /\ UNCHANGED <<pitchData, scanned, autoRuns, isAutoDetectingRef,
                            appDetecting>>
        ELSE /\ detached' = Without(detached, d)
             /\ Publish(call, TRUE)
  /\ UNCHANGED <<consumerVars, audioBuffer, isDetecting, spectral, pureVars,
                 sensitivity, activeTab, audioSource>>

\* The same stretch in a call whose component has been unmounted: its state
\* setters do nothing, onPitchDetected still reaches the App.
DetachedResume(d) ==
  /\ d \in 1..Len(detached)
  /\ LET call == ScanStretch(detached[d].i, detached[d].buffer,
                             detached[d].sensitivity,
                             detached[d].frames, detached[d].allPitches)
     IN IF call.status = "yielded"
        THEN /\ detached' = [detached EXCEPT ![d] = call]
             /\ UNCHANGED <<pitchData, scanned, autoRuns, isAutoDetectingRef,
                            appDetecting>>
        ELSE /\ detached' = Without(detached, d)
             /\ Publish(call, TRUE)
  /\ UNCHANGED <<consumerVars, audioBuffer, isDetecting, spectral, pureVars,
                 sensitivity, activeTab, audioSource>>

\* AutoResume as it would be without the check of cancelled at its end.
AutoResumeNoCancelCheck(a) ==
  /\ a \in 1..Len(autoRuns)
  /\ LET run == autoRuns[a]
         call == ScanStretch(run.i, run.buffer, run.sensitivity, run.frames,
                             run.allPitches)
         rest == Without(autoRuns, a)
     IN IF call.status = "yielded"
        THEN /\ autoRuns' = [autoRuns EXCEPT ![a].i = call.i,
                                             ![a].frames = call.frames,
                                             ![a].allPitches = call.allPitches]
             /\ UNCHANGED <<pitchData, scanned, isAutoDetectingRef,
                            appDetecting>>
        ELSE IF FALSE
        THEN /\ autoRuns' = rest
             /\ scanned' = [ScanOf("auto", FALSE, call)
                              EXCEPT !.outcome = "cancelled"]
             /\ UNCHANGED <<pitchData, isAutoDetectingRef, appDetecting>>
        ELSE /\ pitchData' = call.allPitches
             /\ scanned' = ScanOf("auto", FALSE, call)
             /\ isAutoDetectingRef' = FALSE
             /\ appDetecting' = FALSE
             /\ autoRuns' = IF Len(call.allPitches) # Len(pitchData)
                            THEN Cleanup(rest) ELSE rest
  /\ UNCHANGED <<consumerVars, audioBuffer, isDetecting, spectral, pureVars, sensitivity, activeTab,
                 audioSource, detached>>

\* A stretch of App's auto-detect run a between two awaits; at the end of
\* the loop a cancelled run returns, any other calls setPitchData.
AutoResume(a) ==
  /\ a \in 1..Len(autoRuns)
  /\ LET run == autoRuns[a]
         call == ScanStretch(run.i, run.buffer, run.sensitivity, run.frames,
                             run.allPitches)
         rest == Without(autoRuns, a)
     IN IF call.status = "yielded"
        THEN /\ autoRuns' = [autoRuns EXCEPT ![a].i = call.i,
                                             ![a].frames = call.frames,
                                             ![a].allPitches = call.allPitches]
             /\ UNCHANGED <<pitchData, scanned, isAutoDetectingRef,
                            appDetecting>>
        ELSE IF run.cancelled
        THEN /\ autoRuns' = rest
             /\ scanned' = [ScanOf("auto", FALSE, call)
                              EXCEPT !.outcome = "cancelled"]
             /\ UNCHANGED <<pitchData, isAutoDetectingRef, appDetecting>>
        ELSE /\ pitchData' = call.allPitches
             /\ scanned' = ScanOf("auto", FALSE, call)
             /\ isAutoDetectingRef' = FALSE
             /\ appDetecting' = FALSE
             /\ autoRuns' = IF Len(call.allPitches) # Len(pitchData)
                            THEN Cleanup(rest) ELSE rest
  /\ UNCHANGED <<consumerVars, audioBuffer, isDetecting, spectral, pureVars, sensitivity, activeTab,
                 audioSource, detached>>

\* What becomes of SpectralPitchDetector when the spectrogram tab is left:
\* the component is unmounted, a call in flight runs on, and the next mount
\* starts from the initial state.
Unmount ==
  /\ detached' = IF spectral.status = "yielded"
                 THEN Append(detached, spectral) ELSE detached
  /\ spectral' = NoSpectral
  /\ isDetecting' = FALSE
  /\ sensitivity' = defaultSensitivity

\* What becomes of MicrophoneInput when the microphone tab is left: the
\* component is unmounted, a stopRecording call in flight runs on with the
\* pitches of its component, and the next mount starts from the initial
\* state.
MicUnmount ==
  /\ stops' = [k \in 1..Len(stops) |->
                IF stops[k].frozen THEN stops[k]
                ELSE [frozen |-> TRUE, pitches |-> pitchesRef]]
  /\ isRecording' = FALSE
  /\ livePlayback' = FALSE
  /\ micInstrument' = FALSE
  /\ pitchesRef' = <<>>
  /\ currentNoteRef' = NullNote
  /\ starts' = <<>>
  /\ loops' = <<>>
  /\ animationRef' = 0
  /\ mediaRecorder' = "none"
  /\ micContext' = "none"
  /\ startTimeRef' = 0
  /\ UNCHANGED <<micFrames, frameLog, stopLog, recordings>>

\* AudioUploader's onAudioLoaded -> App.handleAudioLoaded, and the effect.
HandleAudioLoaded(buffer) ==
  /\ InFlight < MaxCalls
  /\ audioBuffer' = buffer
  /\ audioSource' = "file"
  /\ pitchData' = <<>>
  /\ activeTab' = "waveform"
  /\ IF activeTab = "spectrogram" /\ audioBuffer.present
     THEN Unmount
     ELSE UNCHANGED <<detached, spectral, isDetecting, sensitivity>>
  /\ LET effect == AutoDetectEffect("file", buffer, <<>>, autoRuns,
                                    appDetecting)
     IN /\ autoRuns' = effect.autoRuns
        /\ isAutoDetectingRef' = effect.ref
        /\ appDetecting' = effect.detecting
        /\ scanned' = IF effect.ended THEN effect.scan ELSE scanned
  /\ IF activeTab = "microphone" THEN MicUnmount ELSE UNCHANGED micVars
  /\ UNCHANGED <<consumerVars, peakVars, frameVars, ctxVars>>

\* A click on a tab: setActiveTab(tab).
SetActiveTab(tab) ==
  /\ tab # activeTab
  /\ tab \in {"waveform", "spectrogram"} => audioBuffer.present
  /\ activeTab' = tab
  /\ IF activeTab = "spectrogram" /\ audioBuffer.present
     THEN Unmount
     ELSE UNCHANGED <<detached, spectral, isDetecting, sensitivity>>
  /\ IF activeTab = "microphone" THEN MicUnmount ELSE UNCHANGED micVars
  /\ UNCHANGED <<pitchData, consumerVars, audioBuffer, scanned, peakVars,
                 frameVars, ctxVars, audioSource, appDetecting,
                 isAutoDetectingRef, autoRuns>>

\* The sensitivity slider, disabled while the component is detecting.
SetSensitivity(value) ==
  /\ activeTab = "spectrogram"
  /\ audioBuffer.present
  /\ ~isDetecting
  /\ value # sensitivity
  /\ sensitivity' = value
  /\ UNCHANGED <<pitchData, consumerVars, scanVars, pureVars, activeTab,
                 audioSource, appDetecting, isAutoDetectingRef, autoRuns,
                 detached>>

\* findSpectralPeaks(spectrum, sampleRate, fftSize, threshold) on peakInput.
FindSpectralPeaks ==
  /\ peakStage = "input"
  /\ peaks' = findSpectralPeaks(peakInput.spectrum, peakInput.sampleRate,
                                peakInput.threshold)
  /\ peakStage' = "peaks"
  /\ UNCHANGED <<pitchData, consumerVars, scanVars, peakInput, fundamentals,
                 frameVars, utilVars, appVars>>

\* filterHarmonics(peaks) on what findSpectralPeaks returned.
FilterHarmonics ==
  /\ peakStage = "peaks"
  /\ fundamentals' = filterHarmonics(peaks)
  /\ peakStage' = "filtered"
  /\ UNCHANGED <<pitchData, consumerVars, scanVars, peakInput, peaks,
                 frameVars, utilVars, appVars>>

\* const hz = autoCorrelate(buffer, sampleRate) on frame.
AutoCorrelate ==
  /\ acResult.status = "ready"
  /\ acResult' = [status |-> "returned",
                  hz |-> autoCorrelate(frame.buffer, frame.sampleRate)]
  /\ UNCHANGED <<pitchData, consumerVars, scanVars, peakVars, frame, utilVars,
                 appVars>>

\* The state a new AudioContext() starts in: "running", or "suspended" under
\* the browser's autoplay policy.
NewContextStates == {"suspended", "running"}

\* getAudioContext(): [contexts, shared], a new context of state fresh when
\* there is none or the shared one is closed.
SharedContext(fresh) ==
  IF sharedAudioContext = 0 \/ contexts[sharedAudioContext].state = "closed"
  THEN [contexts |-> Append(contexts, [state |-> fresh, closing |-> FALSE,
                                       resuming |-> FALSE]),
        shared |-> Len(contexts) + 1]
  ELSE [contexts |-> contexts, shared |-> sharedAudioContext]

\* Whether SharedContext would call new AudioContext().
CreatesContext ==
  sharedAudioContext = 0 \/ contexts[sharedAudioContext].state = "closed"

GetAudioContext(fresh) ==
  /\ Len(gets) < MaxGets
  /\ CreatesContext => Len(contexts) < MaxContexts
  /\ LET got == SharedContext(fresh)
     IN /\ contexts' = got.contexts
        /\ sharedAudioContext' = got.shared
        /\ gets' = Append(gets, [ctx |-> got.shared,
                                 state |-> got.contexts[got.shared].state])
  /\ UNCHANGED <<pitchData, consumerVars, scanVars, peakVars, frameVars,
                 micVars, appVars>>

\* resumeAudioContext() up to its await: getAudioContext(), then
\* ctx.resume() on a suspended context.
ResumeAudioContext(fresh) ==
  /\ Len(gets) < MaxGets
  /\ CreatesContext => Len(contexts) < MaxContexts
  /\ LET got == SharedContext(fresh)
         ctx == got.shared
     IN /\ contexts' =
             IF got.contexts[ctx].state = "suspended"
             THEN [got.contexts EXCEPT ![ctx].resuming = TRUE]
             ELSE got.contexts
        /\ sharedAudioContext' = ctx
        /\ gets' = Append(gets, [ctx |-> ctx,
                                 state |-> got.contexts[ctx].state])
  /\ UNCHANGED <<pitchData, consumerVars, scanVars, peakVars, frameVars,
                 micVars, appVars>>

\* The promise of ctx.resume() settles: the context runs, unless it has
\* been closed in the meantime.
ResumeSettles(c) ==
  /\ c \in 1..Len(contexts)
  /\ contexts[c].resuming
  /\ contexts' =
       [contexts EXCEPT ![c].resuming = FALSE,
                        ![c].state = IF contexts[c].closing \/ @ = "closed"
                                     THEN @ ELSE "running"]
  /\ UNCHANGED <<pitchData, consumerVars, scanVars, peakVars, frameVars,
                 micVars, appVars, sharedAudioContext, gets>>

\* CloseAudioContext as it would be without sharedAudioContext = null.
CloseAudioContextKeepsReference ==
  /\ IF sharedAudioContext # 0 /\ contexts[sharedAudioContext].state # "closed"
     THEN /\ contexts' =
               [contexts EXCEPT ![sharedAudioContext].closing = TRUE]
          /\ UNCHANGED sharedAudioContext
     ELSE UNCHANGED <<contexts, sharedAudioContext>>
  /\ gets' = <<>>
  /\ UNCHANGED <<pitchData, consumerVars, scanVars, peakVars, frameVars,
                 micVars, appVars>>

\* closeAudioContext(): close() is asked of the shared context, whose state
\* becomes "closed" when the browser has released it, and the reference is
\* dropped.
CloseAudioContext ==
  /\ IF sharedAudioContext # 0 /\ contexts[sharedAudioContext].state # "closed"
     THEN /\ contexts' =
               [contexts EXCEPT ![sharedAudioContext].closing = TRUE]
          /\ sharedAudioContext' = 0
     ELSE UNCHANGED <<contexts, sharedAudioContext>>
  /\ gets' = <<>>
  /\ UNCHANGED <<pitchData, consumerVars, scanVars, peakVars, frameVars,
                 micVars, appVars>>

\* The promise of ctx.close() settles.
CloseSettles(c) ==
  /\ c \in 1..Len(contexts)
  /\ contexts[c].closing
  /\ contexts' = [contexts EXCEPT ![c].closing = FALSE, ![c].state = "closed"]
  /\ UNCHANGED <<pitchData, consumerVars, scanVars, peakVars, frameVars,
                 micVars, appVars, sharedAudioContext, gets>>

\* ------------------------------------------------- MicrophoneInput actions
\* The part of analyze that detects and plays: live is livePlayback &&
\* instrument of the closure, ref is currentNoteRef.current, hz what
\* autoCorrelate returned.
AnalyzeFrame(live, ref, hz) ==
  LET inRange == hz > 5000 /\ hz < 100000
      midiNote == hzToMidi(hz)
  IN IF inRange
     THEN IF live /\ ref # midiNote
          THEN [after |-> midiNote, played |-> midiNote,
                stopped |-> ref # NullNote, pushed |-> TRUE]
          ELSE [after |-> ref, played |-> NullNote, stopped |-> FALSE,
                pushed |-> TRUE]
     ELSE IF live /\ ref # NullNote
          THEN [after |-> NullNote, played |-> NullNote, stopped |-> TRUE,
                pushed |-> FALSE]
          ELSE [after |-> ref, played |-> NullNote, stopped |-> FALSE,
                pushed |-> FALSE]

\* App.handleRecordedAudio(buffer): the App state it leaves.
HandleRecordedAudio(buffer) ==
  [pitchData |-> <<>>, audioBuffer |-> buffer, audioSource |-> "microphone"]

\* App.handleMicrophonePitches(pitches) on the App state app.
HandleMicrophonePitches(app, pitches) == [app EXCEPT !.pitchData = pitches]

\* The App state as the callbacks of stopRecording find it.
AppNow ==
  [pitchData |-> pitchData, audioBuffer |-> audioBuffer,
   audioSource |-> audioSource]

\* StopTail as it would be had the pitches been reported before the audio.
StopTailPitchesFirst(frozen, pitches, outcome, buffer) ==
  LET app == IF outcome = "decoded" THEN HandleRecordedAudio(buffer)
             ELSE IF Len(pitches) > 0
                  THEN HandleMicrophonePitches(AppNow, pitches)
                  ELSE AppNow
      effect == AutoDetectEffect(app.audioSource, app.audioBuffer,
                                 app.pitchData, autoRuns, appDetecting)
  IN /\ pitchData' = app.pitchData
     /\ audioBuffer' = app.audioBuffer
     /\ audioSource' = app.audioSource
     /\ IF outcome = "decoded" \/ Len(app.pitchData) # Len(pitchData)
        THEN /\ autoRuns' = effect.autoRuns
             /\ isAutoDetectingRef' = effect.ref
             /\ appDetecting' = effect.detecting
        ELSE UNCHANGED <<autoRuns, isAutoDetectingRef, appDetecting>>
     /\ micContext' = IF ~frozen /\ micContext = "open"
                      THEN "closed" ELSE micContext
     /\ stopLog' =
          [calls |-> (IF Len(pitches) > 0
                      THEN <<"onPitchesRecorded">> ELSE <<>>)
                     \o (IF outcome = "decoded"
                         THEN <<"onAudioRecorded">> ELSE <<>>),
           ended |-> TRUE]

\* stopRecording from the recorder's onstop to its end: onAudioRecorded with
\* the decoded recording, the recording context closed, and
\* onPitchesRecorded with pitchesRef.current if it holds a pitch; then the
\* one render of App with the state both callbacks have set, and its effect.
StopTail(frozen, pitches, outcome, buffer) ==
  LET afterAudio == IF outcome = "decoded" THEN HandleRecordedAudio(buffer)
                    ELSE AppNow
      app == IF Len(pitches) > 0
             THEN HandleMicrophonePitches(afterAudio, pitches)
             ELSE afterAudio
      effect == AutoDetectEffect(app.audioSource, app.audioBuffer,
                                 app.pitchData, autoRuns, appDetecting)
  IN /\ pitchData' = app.pitchData
     /\ audioBuffer' = app.audioBuffer
     /\ audioSource' = app.audioSource
     /\ IF outcome = "decoded" \/ Len(app.pitchData) # Len(pitchData)
        THEN /\ autoRuns' = effect.autoRuns
             /\ isAutoDetectingRef' = effect.ref
             /\ appDetecting' = effect.detecting
        ELSE UNCHANGED <<autoRuns, isAutoDetectingRef, appDetecting>>
     /\ micContext' = IF ~frozen /\ micContext = "open"
                      THEN "closed" ELSE micContext
     /\ stopLog' =
          [calls |-> (IF outcome = "decoded"
                      THEN <<"onAudioRecorded">> ELSE <<>>)
                     \o (IF Len(pitches) > 0
                         THEN <<"onPitchesRecorded">> ELSE <<>>),
           ended |-> TRUE]

\* The soundfont of MicrophoneInput has been loaded.
LoadMicInstrument ==
  /\ activeTab = "microphone"
  /\ ~micInstrument
  /\ micInstrument' = TRUE
  /\ UNCHANGED <<recordings, startTimeRef, pitchData, consumerVars, scanVars, peakVars, frameVars,
                 ctxVars, appVars, isRecording, livePlayback, pitchesRef,
                 currentNoteRef, starts, loops, animationRef, mediaRecorder,
                 micContext, micFrames, stops, frameLog, stopLog>>

\* The live playback button, disabled without instrument and while recording.
ToggleLivePlayback ==
  /\ activeTab = "microphone"
  /\ micInstrument
  /\ ~isRecording
  /\ livePlayback' = ~livePlayback
  /\ UNCHANGED <<recordings, startTimeRef, pitchData, consumerVars, scanVars, peakVars, frameVars,
                 ctxVars, appVars, isRecording, micInstrument, pitchesRef,
                 currentNoteRef, starts, loops, animationRef, mediaRecorder,
                 micContext, micFrames, stops, frameLog, stopLog>>

\* startRecording up to its await of getUserMedia.
StartRecording ==
  /\ activeTab = "microphone"
  /\ ~isRecording
  /\ recordings < MaxStarts
  /\ recordings' = recordings + 1
  /\ starts' = Append(starts, [live |-> livePlayback /\ micInstrument])
  /\ UNCHANGED <<startTimeRef, pitchData, consumerVars, scanVars, peakVars, frameVars,
                 ctxVars, appVars, isRecording, livePlayback, micInstrument,
                 pitchesRef, currentNoteRef, loops, animationRef,
                 mediaRecorder, micContext, micFrames, stops, frameLog,
                 stopLog>>

\* getUserMedia is rejected: the catch of startRecording.
MicrophoneDenied(s) ==
  /\ s \in 1..Len(starts)
  /\ starts' = Without(starts, s)
  /\ UNCHANGED <<recordings, startTimeRef, pitchData, consumerVars, scanVars, peakVars, frameVars,
                 ctxVars, appVars, isRecording, livePlayback, micInstrument,
                 pitchesRef, currentNoteRef, loops, animationRef,
                 mediaRecorder, micContext, micFrames, stops, frameLog,
                 stopLog>>

\* getUserMedia is fulfilled: the rest of startRecording, with the first
\* call of analyze, on an analyser that has no samples yet.
MicrophoneGranted(s) ==
  /\ s \in 1..Len(starts)
  /\ LET live == starts[s].live
         first == AnalyzeFrame(live, currentNoteRef, NoPitch)
     IN /\ currentNoteRef' = first.after
        /\ loops' = Append(loops, [live |-> live])
        /\ animationRef' = Len(loops) + 1
        /\ frameLog' = [played |-> first.played, stopped |-> first.stopped]
  /\ starts' = Without(starts, s)
  /\ micContext' = "open"
  /\ mediaRecorder' = "recording"
  /\ isRecording' = TRUE
  /\ pitchesRef' = <<>>
  /\ startTimeRef' = micFrames
  /\ UNCHANGED <<recordings, micFrames, pitchData, consumerVars, scanVars, peakVars, frameVars,
                 ctxVars, appVars, livePlayback, micInstrument, stops,
                 stopLog>>

\* An animation frame of loop l: analyze, with hz from autoCorrelate on
\* what analyserRef.current holds (on a closed context, its last samples).
Analyze(l, hz) ==
  /\ l \in 1..Len(loops)
  /\ micFrames < MaxMicFrames
  /\ LET live == loops[l].live
         result == AnalyzeFrame(live, currentNoteRef, hz)
     IN /\ currentNoteRef' = result.after
        /\ pitchesRef' =
             IF result.pushed
             THEN Append(pitchesRef,
                         [time |-> frameInterval
                                     * (micFrames + 1 - startTimeRef),
                          hz |-> hz])
             ELSE pitchesRef
        /\ frameLog' = [played |-> result.played,
                        stopped |-> result.stopped]
  /\ animationRef' = l
  /\ micFrames' = micFrames + 1
  /\ UNCHANGED <<recordings, startTimeRef, pitchData, consumerVars, scanVars, peakVars, frameVars,
                 ctxVars, appVars, isRecording, livePlayback, micInstrument,
                 starts, loops, mediaRecorder, micContext, stops, stopLog>>

\* stopRecording up to its await of the recorder's stop event (or to its
\* end when no recorder is recording).
StopRecording ==
  /\ activeTab = "microphone"
  /\ isRecording
  /\ Len(stops) < MaxStops
  /\ isRecording' = FALSE
  /\ currentNoteRef' = IF micInstrument /\ currentNoteRef # NullNote
                       THEN NullNote ELSE currentNoteRef
  /\ loops' = IF animationRef # 0 THEN Without(loops, animationRef) ELSE loops
  /\ animationRef' = 0
  /\ IF mediaRecorder = "recording"
     THEN /\ mediaRecorder' = "inactive"
          /\ stops' = Append(stops, [frozen |-> FALSE, pitches |-> <<>>])
          /\ UNCHANGED <<pitchData, audioBuffer, audioSource, autoRuns,
                         isAutoDetectingRef, appDetecting, micContext,
                         stopLog>>
     ELSE /\ StopTail(FALSE, pitchesRef, "none", NoBuffer)
          /\ UNCHANGED <<mediaRecorder, stops>>
  /\ UNCHANGED <<recordings, startTimeRef, consumerVars, isDetecting, spectral, scanned, peakVars,
                 frameVars, ctxVars, sensitivity, activeTab, detached,
                 livePlayback, micInstrument, pitchesRef, starts, micFrames,
                 frameLog>>

\* The recorder's stop event of stopRecording call k, the recording decoded
\* or not, and the rest of stopRecording.
FinishStop(k, outcome, buffer) ==
  /\ k \in 1..Len(stops)
  /\ StopTail(stops[k].frozen,
              IF stops[k].frozen THEN stops[k].pitches ELSE pitchesRef,
              outcome, buffer)
  /\ stops' = Without(stops, k)
  /\ UNCHANGED <<recordings, startTimeRef, consumerVars, isDetecting, spectral, scanned, peakVars,
                 frameVars, ctxVars, sensitivity, activeTab, detached,
                 isRecording, livePlayback, micInstrument, pitchesRef,
                 currentNoteRef, starts, loops, animationRef, mediaRecorder,
                 micFrames, frameLog>>

\* ------------------------------------------------- quantizer specification
InitQuantize ==
  /\ pitchData \in EventSeqs(MaxEvents)
  /\ instrument = FALSE
  /\ isPlaying = FALSE
  /\ playbackRef = NoRef
  /\ runs = <<>>
  /\ playResult = "idle"
  /\ genResult = "idle"
  /\ pitchGroups = <<>>
  /\ track = <<>>
  /\ audioBuffer = NoBuffer
  /\ isDetecting = FALSE
  /\ spectral = NoSpectral
  /\ scanned = NoScan
  /\ peakInput = NoPeakInput
  /\ peaks = <<>>
  /\ fundamentals = <<>>
  /\ peakStage = "none"
  /\ frame = NoFrame
  /\ acResult = NoResult
  /\ sensitivity = defaultSensitivity
  /\ activeTab = "microphone"
  /\ audioSource = "none"
  /\ appDetecting = FALSE
  /\ isAutoDetectingRef = FALSE
  /\ autoRuns = <<>>
  /\ detached = <<>>
  /\ ContextIdle
  /\ MicIdle

NextQuantize ==
  \/ LoadInstrument
  \/ PlayMIDI
  \/ \E r \in 1..Len(runs) : PlayTimer(r)
  \/ StopPlayback
  \/ GenerateMIDI

SpecQuantize == InitQuantize /\ [][NextQuantize]_vars

\* --------------------------------------------------- scanner specification
InitScan ==
  /\ pitchData = <<>>
  /\ instrument = FALSE
  /\ isPlaying = FALSE
  /\ playbackRef = NoRef
  /\ runs = <<>>
  /\ playResult = "idle"
  /\ genResult = "idle"
  /\ pitchGroups = <<>>
  /\ track = <<>>
  /\ audioBuffer \in [present : {TRUE}, length : BufferLengths,
                       sampleRate : SampleRates, signal : Signals]
  /\ isDetecting = FALSE
  /\ spectral = NoSpectral
  /\ scanned = NoScan
  /\ peakInput = NoPeakInput
  /\ peaks = <<>>
  /\ fundamentals = <<>>
  /\ peakStage = "none"
  /\ frame = NoFrame
  /\ acResult = NoResult
  /\ sensitivity = defaultSensitivity
  /\ activeTab = "spectrogram"
  /\ audioSource = "microphone"
  /\ appDetecting = FALSE
  /\ isAutoDetectingRef = FALSE
  /\ autoRuns = <<>>
  /\ detached = <<>>
  /\ ContextIdle
  /\ MicIdle

NextScan ==
  \/ DetectPitches
  \/ SpectralDetect
  \/ SpectralResume
  \/ LoadInstrument
  \/ PlayMIDI
  \/ \E r \in 1..Len(runs) : PlayTimer(r)
  \/ StopPlayback
  \/ GenerateMIDI

SpecScan == InitScan /\ [][NextScan]_vars

\* ------------------------------------------------ conversion specification
\* The consumers on pitch data of one or two events of any frequency.
InitConvert ==
  /\ pitchData \in
       {<<[time |-> 0, hz |-> h]>> : h \in HzRange}
         \cup {<<[time |-> 0, hz |-> h], [time |-> 300, hz |-> g]>> :
                 h \in HzRange, g \in HzRange}
  /\ instrument = FALSE
  /\ isPlaying = FALSE
  /\ playbackRef = NoRef
  /\ runs = <<>>
  /\ playResult = "idle"
  /\ genResult = "idle"
  /\ pitchGroups = <<>>
  /\ track = <<>>
  /\ audioBuffer = NoBuffer
  /\ isDetecting = FALSE
  /\ spectral = NoSpectral
  /\ scanned = NoScan
  /\ peakInput = NoPeakInput
  /\ peaks = <<>>
  /\ fundamentals = <<>>
  /\ peakStage = "none"
  /\ frame = NoFrame
  /\ acResult = NoResult
  /\ sensitivity = defaultSensitivity
  /\ activeTab = "microphone"
  /\ audioSource = "none"
  /\ appDetecting = FALSE
  /\ isAutoDetectingRef = FALSE
  /\ autoRuns = <<>>
  /\ detached = <<>>
  /\ ContextIdle
  /\ MicIdle

SpecConvert == InitConvert /\ [][NextQuantize]_vars

\* ------------------------------------------- one frame's peaks specification
InitPeaks ==
  /\ pitchData = <<>>
  /\ instrument = FALSE
  /\ isPlaying = FALSE
  /\ playbackRef = NoRef
  /\ runs = <<>>
  /\ playResult = "idle"
  /\ genResult = "idle"
  /\ pitchGroups = <<>>
  /\ track = <<>>
  /\ audioBuffer = NoBuffer
  /\ isDetecting = FALSE
  /\ spectral = NoSpectral
  /\ scanned = NoScan
  /\ peakInput \in [spectrum : Spectra(MaxSpikes, MaxCombTeeth),
                     sampleRate : PeakSampleRates,
                     threshold : {defaultSensitivity}]
  /\ peaks = <<>>
  /\ fundamentals = <<>>
  /\ peakStage = "input"
  /\ frame = NoFrame
  /\ acResult = NoResult
  /\ sensitivity = defaultSensitivity
  /\ activeTab = "microphone"
  /\ audioSource = "none"
  /\ appDetecting = FALSE
  /\ isAutoDetectingRef = FALSE
  /\ autoRuns = <<>>
  /\ detached = <<>>
  /\ ContextIdle
  /\ MicIdle

NextPeaks ==
  \/ FindSpectralPeaks
  \/ FilterHarmonics

SpecPeaks == InitPeaks /\ [][NextPeaks]_vars

\* ------------------------------------------- one frame's pitch specification
InitFrame ==
  /\ pitchData = <<>>
  /\ instrument = FALSE
  /\ isPlaying = FALSE
  /\ playbackRef = NoRef
  /\ runs = <<>>
  /\ playResult = "idle"
  /\ genResult = "idle"
  /\ pitchGroups = <<>>
  /\ track = <<>>
  /\ audioBuffer = NoBuffer
  /\ isDetecting = FALSE
  /\ spectral = NoSpectral
  /\ scanned = NoScan
  /\ peakInput = NoPeakInput
  /\ peaks = <<>>
  /\ fundamentals = <<>>
  /\ peakStage = "none"
  /\ frame \in [buffer : Frames(MaxFrameLength), sampleRate : FrameSampleRates]
  /\ acResult = [status |-> "ready", hz |-> NoPitch]
  /\ sensitivity = defaultSensitivity
  /\ activeTab = "microphone"
  /\ audioSource = "none"
  /\ appDetecting = FALSE
  /\ isAutoDetectingRef = FALSE
  /\ autoRuns = <<>>
  /\ detached = <<>>
  /\ ContextIdle
  /\ MicIdle

NextFrame == AutoCorrelate

SpecFrame == InitFrame /\ [][NextFrame]_vars

\* --------------------------------------------------------- app specification
\* The uploaded files: a chord of three frames, and an onset of one frame
\* and of none.
AppBuffers ==
  {b \in [present : {TRUE}, length : AppBufferLengths,
          sampleRate : AppSampleRates, signal : AppSignals] :
     b.signal = "chord" <=> b.length = 5121}

InitApp ==
  /\ pitchData = <<>>
  /\ instrument = FALSE
  /\ isPlaying = FALSE
  /\ playbackRef = NoRef
  /\ runs = <<>>
  /\ playResult = "idle"
  /\ genResult = "idle"
  /\ pitchGroups = <<>>
  /\ track = <<>>
  /\ audioBuffer = NoBuffer
  /\ isDetecting = FALSE
  /\ spectral = NoSpectral
  /\ scanned = NoScan
  /\ peakInput = NoPeakInput
  /\ peaks = <<>>
  /\ fundamentals = <<>>
  /\ peakStage = "none"
  /\ frame = NoFrame
  /\ acResult = NoResult
  /\ sensitivity = defaultSensitivity
  /\ activeTab = "microphone"
  /\ audioSource = "none"
  /\ appDetecting = FALSE
  /\ isAutoDetectingRef = FALSE
  /\ autoRuns = <<>>
  /\ detached = <<>>
  /\ ContextIdle
  /\ MicIdle

NextApp ==
  \/ \E buffer \in AppBuffers : HandleAudioLoaded(buffer)
  \/ \E tab \in Tabs : SetActiveTab(tab)
  \/ \E value \in Sensitivities : SetSensitivity(value)
  \/ SpectralDetect
  \/ SpectralResume
  \/ \E d \in 1..Len(detached) : DetachedResume(d)
  \/ \E a \in 1..Len(autoRuns) : AutoResume(a)

SpecApp == InitApp /\ [][NextApp]_vars

\* ----------------------------------------------- audio context specification
InitContext ==
  /\ pitchData = <<>>
  /\ instrument = FALSE
  /\ isPlaying = FALSE
  /\ playbackRef = NoRef
  /\ runs = <<>>
  /\ playResult = "idle"
  /\ genResult = "idle"
  /\ pitchGroups = <<>>
  /\ track = <<>>
  /\ audioBuffer = NoBuffer
  /\ isDetecting = FALSE
  /\ spectral = NoSpectral
  /\ scanned = NoScan
  /\ peakInput = NoPeakInput
  /\ peaks = <<>>
  /\ fundamentals = <<>>
  /\ peakStage = "none"
  /\ frame = NoFrame
  /\ acResult = NoResult
  /\ sensitivity = defaultSensitivity
  /\ activeTab = "microphone"
  /\ audioSource = "none"
  /\ appDetecting = FALSE
  /\ isAutoDetectingRef = FALSE
  /\ autoRuns = <<>>
  /\ detached = <<>>
  /\ ContextIdle
  /\ MicIdle

NextContext ==
  \/ \E fresh \in NewContextStates : GetAudioContext(fresh)
  \/ \E fresh \in NewContextStates : ResumeAudioContext(fresh)
  \/ \E c \in 1..Len(contexts) : ResumeSettles(c)
  \/ CloseAudioContext
  \/ \E c \in 1..Len(contexts) : CloseSettles(c)

SpecContext == InitContext /\ [][NextContext]_vars

\* -------------------------------------------------- microphone specification
\* The tabs there are before any audio is loaded.
MicTabs == {"upload", "microphone"}

RecordedBuffers ==
  [present : {TRUE}, length : RecordedLengths,
   sampleRate : RecordedSampleRates, signal : {"tone"}]

InitMic ==
  /\ pitchData = <<>>
  /\ instrument = FALSE
  /\ isPlaying = FALSE
  /\ playbackRef = NoRef
  /\ runs = <<>>
  /\ playResult = "idle"
  /\ genResult = "idle"
  /\ pitchGroups = <<>>
  /\ track = <<>>
  /\ audioBuffer = NoBuffer
  /\ isDetecting = FALSE
  /\ spectral = NoSpectral
  /\ scanned = NoScan
  /\ peakInput = NoPeakInput
  /\ peaks = <<>>
  /\ fundamentals = <<>>
  /\ peakStage = "none"
  /\ frame = NoFrame
  /\ acResult = NoResult
  /\ sensitivity = defaultSensitivity
  /\ activeTab = "microphone"
  /\ audioSource = "none"
  /\ appDetecting = FALSE
  /\ isAutoDetectingRef = FALSE
  /\ autoRuns = <<>>
  /\ detached = <<>>
  /\ ContextIdle
  /\ MicIdle

NextMic ==
  \/ LoadMicInstrument
  \/ ToggleLivePlayback
  \/ StartRecording
  \/ \E s \in 1..Len(starts) : MicrophoneDenied(s)
  \/ \E s \in 1..Len(starts) : MicrophoneGranted(s)
  \/ \E l \in 1..Len(loops), hz \in MicHz : Analyze(l, hz)
  \/ StopRecording
  \/ \E k \in 1..Len(stops), outcome \in DecodeOutcomes,
        buffer \in RecordedBuffers : FinishStop(k, outcome, buffer)
  \/ \E tab \in MicTabs : SetActiveTab(tab)

SpecMic == InitMic /\ [][NextMic]_vars

\* ================================================================== claims
StrictlyIncreasing(s) == \A k \in 1..(Len(s) - 1) : s[k] < s[k + 1]

GroupTimes(noteGroups) == [k \in 1..Len(noteGroups) |-> noteGroups[k].time]
StartTimes(groups) == [k \in 1..Len(groups) |-> groups[k].startTime]
EventHz(pd) == [k \in 1..Len(pd) |-> pd[k].hz]
NoteTimes(group) == [k \in 1..Len(group.notes) |-> group.notes[k].time]

\* The times of the events that generateMIDI put into its k-th group: the
\* groups hold the frequencies of consecutive events of pitchData.
RECURSIVE EventsBefore(_, _)
EventsBefore(groups, k) ==
  IF k = 1 THEN 0
  ELSE EventsBefore(groups, k - 1) + Len(groups[k - 1].pitches)

MemberTimes(groups, pd, k) ==
  [j \in 1..Len(groups[k].pitches) |-> pd[EventsBefore(groups, k) + j].time]

\* The chords of a track, and the tick at which the k-th event begins.
Chords(t) == SelectSeq(t, LAMBDA e : e.velocity = chordVelocity)
RECURSIVE StartTick(_, _)
StartTick(t, k) == IF k = 1 THEN 0 ELSE StartTick(t, k - 1) + t[k - 1].duration
ChordStartTicks(t) ==
  LET idx == {k \in 1..Len(t) : t[k].velocity = chordVelocity}
      nth[n \in 1..Cardinality(idx)] ==
        CHOOSE k \in idx : Cardinality({j \in idx : j < k}) = n - 1
  IN [n \in 1..Cardinality(idx) |-> StartTick(t, nth[n])]

\* C1: for non-decreasing pitch events, the groups of playMIDI and of
\* generateMIDI have strictly increasing start times.
C1_StartTimesStrictlyIncrease ==
  /\ \A r \in 1..Len(runs) : StrictlyIncreasing(GroupTimes(runs[r].noteGroups))
  /\ StrictlyIncreasing(StartTimes(pitchGroups))

C1_Witness ==
  /\ \E k \in 1..(Len(pitchData) - 1) : pitchData[k].time = pitchData[k + 1].time
  /\ \E r \in 1..Len(runs) : Len(runs[r].noteGroups) >= 2
  /\ Len(pitchGroups) >= 2

\* C2: every pitch event lies in exactly one group, the last group included,
\* and every group becomes a chord: played by a run that was not stopped,
\* written to the exported track.
C2_QuantizationPartitions ==
  /\ \A r \in 1..Len(runs) :
       LET run == runs[r] IN
       /\ Flatten([k \in 1..Len(run.noteGroups) |-> run.noteGroups[k].notes])
            = Notes(pitchData)
       /\ \A k \in 1..Len(run.noteGroups) : Len(run.noteGroups[k].notes) > 0
       /\ Len(run.played) = run.i
       /\ \A k \in 1..run.i :
            /\ run.played[k].time = run.noteGroups[k].time
            /\ Len(run.played[k].midi) = Len(run.noteGroups[k].notes)
       /\ run.status = "finished" => run.i = Len(run.noteGroups)
  /\ genResult = "done" =>
       /\ Flatten([k \in 1..Len(pitchGroups) |-> pitchGroups[k].pitches])
            = EventHz(pitchData)
       /\ Len(Chords(track)) = Len(pitchGroups)
       /\ \A k \in 1..Len(pitchGroups) :
            \A j \in 1..Len(pitchGroups[k].pitches) :
              \E n \in 1..Len(Chords(track)[k].pitch) :
                Chords(track)[k].pitch[n] = genHzToMidi(pitchGroups[k].pitches[j])

C2_Witness ==
  /\ Len(pitchData) = MaxEvents
  /\ \E r \in 1..Len(runs) :
       /\ runs[r].status = "finished"
       /\ Len(runs[r].noteGroups) >= 2
       /\ Len(runs[r].noteGroups[Len(runs[r].noteGroups)].notes) >= 2
  /\ genResult = "done"
  /\ Len(pitchGroups) >= 2

\* C3: playMIDI and generateMIDI quantize alike: the same number of groups,
\* the same start times, the same events in each group.
C3_ConsumersQuantizeAlike ==
  \A r \in 1..Len(runs) :
    genResult = "done" =>
      /\ Len(runs[r].noteGroups) = Len(pitchGroups)
      /\ GroupTimes(runs[r].noteGroups) = StartTimes(pitchGroups)
      /\ \A k \in 1..Len(pitchGroups) :
           k <= Len(runs[r].noteGroups) =>
             NoteTimes(runs[r].noteGroups[k])
               = MemberTimes(pitchGroups, pitchData, k)

\* C4: the start time of every group is the time of its first event.
C4_StartIsFirstEventTime ==
  /\ \A r \in 1..Len(runs) :
       \A k \in 1..Len(runs[r].noteGroups) :
         runs[r].noteGroups[k].time = runs[r].noteGroups[k].notes[1].time
  /\ genResult = "done" =>
       \A k \in 1..Len(pitchGroups) :
         pitchGroups[k].startTime = MemberTimes(pitchGroups, pitchData, k)[1]

\* C5: every event of a group lies less than one window after the group's
\* start: 0 <= t - start < 20 ms.
C5_MembersWithinWindow ==
  /\ \A r \in 1..Len(runs) :
       \A k \in 1..Len(runs[r].noteGroups) :
         LET g == runs[r].noteGroups[k] IN
         \A j \in 1..Len(g.notes) :
           0 <= g.notes[j].time - g.time /\ g.notes[j].time - g.time < 20
  /\ genResult = "done" =>
       \A k \in 1..Len(pitchGroups) :
         LET ts == MemberTimes(pitchGroups, pitchData, k) IN
         \A j \in 1..Len(ts) :
           /\ 0 <= ts[j] - pitchGroups[k].startTime
           /\ ts[j] - pitchGroups[k].startTime < 20

\* C6: a chord followed by another lasts the gap to the next group's start
\* in ticks (256 per second), clamped to [8, 64]; the last chord lasts 16
\* ticks; every duration is positive.
C6_DurationsClamped ==
  genResult = "done" =>
    /\ Len(Chords(track)) = Len(pitchGroups)
    /\ \A k \in 1..Len(Chords(track)) :
         LET d == Chords(track)[k].duration IN
         /\ d > 0
         /\ k = Len(pitchGroups) => d = 16
         /\ k < Len(pitchGroups) =>
              LET gap == pitchGroups[k + 1].startTime - pitchGroups[k].startTime
                  ticks == Round(gap * 256, 1000)
              IN /\ ticks < 8 => d = 8
                 /\ ticks > 64 => d = 64
                 /\ (8 <= ticks /\ ticks <= 64) => d = ticks

C6_Witness ==
  /\ genResult = "done"
  /\ Len(Chords(track)) = 3
  /\ Chords(track)[1].duration = 8
  /\ pitchGroups[2].startTime - pitchGroups[1].startTime < 31
  /\ Chords(track)[2].duration = 64
  /\ pitchGroups[3].startTime - pitchGroups[2].startTime > 252

\* C7: every chord of the exported track begins at its target tick,
\* round(startTime * 256).
C7_ChordsStartOnTarget ==
  genResult = "done" =>
    /\ Len(ChordStartTicks(track)) = Len(pitchGroups)
    /\ \A k \in 1..Len(pitchGroups) :
         ChordStartTicks(track)[k]
           = Round(pitchGroups[k].startTime * 256, 1000)

\* C8: a scan (of a well-formed buffer) analyses exactly the positions
\* 0, hop, 2 * hop, ... whose window fits the buffer, i + windowSize <= length.
FullWindows(length, win, hop) ==
  {i \in 0..length : i % hop = 0 /\ i + win <= length}

C8_EveryFullWindowScanned ==
  (scanned.length > 0 /\ scanned.sampleRate > 0) =>
  /\ scanned.by = "mono" =>
       {scanned.frames[k] : k \in 1..Len(scanned.frames)}
         = FullWindows(scanned.length, 2048, 512)
  /\ scanned.by = "spectral" =>
       {scanned.frames[k] : k \in 1..Len(scanned.frames)}
         = FullWindows(scanned.length, 4096, 512)

\* C9: a scan of a buffer shorter than the window analyses no frame and
\* publishes an empty sequence, without an error; playMIDI and generateMIDI
\* called on an empty sequence produce no group, chord or track.
C9_ShortScan ==
  /\ (scanned.by = "mono" /\ scanned.length < 2048) =>
       /\ scanned.frames = <<>>
       /\ scanned.published = <<>>
       /\ pitchData = <<>>
       /\ scanned.outcome = "published"
  /\ (scanned.by = "spectral" /\ scanned.length < 4096) =>
       /\ scanned.frames = <<>>
       /\ scanned.published = <<>>
       /\ pitchData = <<>>
       /\ scanned.outcome = "published"
  /\ audioBuffer.length < 2048 =>
       runs = <<>> /\ pitchGroups = <<>> /\ track = <<>>

C9_EmptyConsumed ==
  Len(pitchData) = 0 =>
    Len(runs') = Len(runs) /\ pitchGroups' = pitchGroups /\ track' = track

C9_ShortBufferYieldsNothing == []C9_ShortScan /\ [][C9_EmptyConsumed]_vars

C9_Witness ==
  /\ audioBuffer.length > 0
  /\ audioBuffer.length < 2048
  /\ audioBuffer.sampleRate > 0
  /\ audioBuffer.signal = "tone"
  /\ scanned.by # "none"
  /\ instrument
  /\ playResult = "returned"
  /\ genResult = "returned"

\* C10: a scan of a zero-length buffer, or at a sample rate that is not
\* positive, ends in an error instead of publishing an empty result.
C10_MalformedInputFails ==
  (scanned.by # "none" /\ (scanned.length = 0 \/ scanned.sampleRate <= 0))
    => scanned.outcome = "error"

\* C11: the events a scan publishes are in non-decreasing order of time, and
\* each carries the time of a frame start of that scan, i / sampleRate
\* (in whole milliseconds).
C11_PublishedTimesNonDecreasing ==
  scanned.by # "none" =>
    /\ \A k \in 1..(Len(scanned.published) - 1) :
         scanned.published[k].time <= scanned.published[k + 1].time
    /\ \A k \in 1..Len(scanned.published) :
         \E f \in 1..Len(scanned.frames) :
           scanned.published[k].time
             = Round(scanned.frames[f] * 1000, scanned.sampleRate)
    /\ pitchData = scanned.published

C11_Witness ==
  /\ scanned.by = "spectral"
  /\ Len(scanned.frames) >= 3
  /\ \E k \in 1..(Len(scanned.published) - 1) :
       scanned.published[k].time = scanned.published[k + 1].time
  /\ \E k \in 1..(Len(scanned.published) - 1) :
       scanned.published[k].time < scanned.published[k + 1].time

\* C12: what filterHarmonics returns holds no two peaks of which the higher
\* is a harmonic of the lower (their ratio less than 0.1 from an integer
\* n > 1); peaks at f, 2f and 3f leave the peak at f alone.
C12_NoHarmonicPairKept ==
  peakStage = "filtered" =>
    /\ \A a, b \in 1..Len(fundamentals) :
         fundamentals[a].bin < fundamentals[b].bin =>
           LET lo == fundamentals[a].bin
               hi == fundamentals[b].bin
               n == (2 * hi + lo) \div (2 * lo)
               off == IF hi >= n * lo THEN hi - n * lo ELSE n * lo - hi
           IN ~(10 * off < lo /\ n > 1)
    /\ {peaks[k].bin : k \in 1..Len(peaks)} = {10, 20, 30} =>
         Len(fundamentals) = 1 /\ fundamentals[1].bin = 10

C12_Witness ==
  /\ peakStage = "filtered"
  /\ Len(peaks) = 3
  /\ peaks[1].bin = 10 /\ peaks[2].bin = 20 /\ peaks[3].bin = 30
  /\ peaks[1].amplitude > peaks[2].amplitude
  /\ Len(fundamentals) = 1

\* C13: every peak findSpectralPeaks reports lies on a bin in
\* [10, len - 10), has a value strictly above the threshold and strictly
\* above every other bin within five bins of it.
C13_PeaksStrictlyAboveThreshold ==
  peakStage \in {"peaks", "filtered"} =>
    \A k \in 1..Len(peaks) :
      LET i == peaks[k].bin
          spectrum == peakInput.spectrum
      IN /\ 10 <= i /\ i < Len(spectrum) - 10
         /\ spectrum[i + 1] = peaks[k].amplitude
         /\ spectrum[i + 1] > peakInput.threshold
         /\ \A j \in (i - 5)..(i + 5) :
              j # i => spectrum[j + 1] < spectrum[i + 1]

\* The bins of peakInput that qualify as a peak: looked at, not below the
\* threshold, a strict local maximum, in the musical range.
QualifyingBins ==
  LET spectrum == peakInput.spectrum
  IN {i \in 10..(Len(spectrum) - 11) :
        /\ spectrum[i + 1] >= peakInput.threshold
        /\ \A j \in (i - 5)..(i + 5) :
             j # i => spectrum[j + 1] < spectrum[i + 1]
        /\ i * peakInput.sampleRate >= 50 * 4096
        /\ i * peakInput.sampleRate <= 4000 * 4096}

\* C14: findSpectralPeaks returns at most ten peaks, all of them when there
\* are no more than ten, and otherwise ten that are at least as high as
\* every peak it discards.
C14_TopTenPeaks ==
  peakStage \in {"peaks", "filtered"} =>
    LET returned == {peaks[k].bin : k \in 1..Len(peaks)} IN
    /\ Len(peaks) <= 10
    /\ Cardinality(returned) = Len(peaks)
    /\ returned \subseteq QualifyingBins
    /\ Len(peaks) = (IF Cardinality(QualifyingBins) < 10
                     THEN Cardinality(QualifyingBins) ELSE 10)
    /\ \A q \in QualifyingBins \ returned :
         \A k \in 1..Len(peaks) :
           peaks[k].amplitude >= peakInput.spectrum[q + 1]
    /\ \A k \in 1..(Len(peaks) - 1) :
         peaks[k].amplitude >= peaks[k + 1].amplitude

C14_Witness ==
  /\ peakStage = "peaks"
  /\ Cardinality(QualifyingBins) > 10
  /\ Len(peaks) = 10
  /\ \E q \in QualifyingBins :
       /\ q < peaks[1].bin
       /\ \A k \in 1..Len(peaks) :
            peaks[k].amplitude > peakInput.spectrum[q + 1]

LagSum(L) ==
  LET b == frame.buffer
      M == Len(b) \div 2
      term[i \in 0..M] ==
        IF i = 0 THEN 0
        ELSE term[i - 1]
               + (IF b[i] >= b[i + L] THEN b[i] - b[i + L] ELSE b[i + L] - b[i])
  IN term[M]

QualifyingLags ==
  LET M == Len(frame.buffer) \div 2
  IN {L \in 1..(M - 1) : 10 * LagSum(L) < 1000 * M /\ LagSum(L) < LagSum(L - 1)}

PassesSilenceCheck ==
  LET b == frame.buffer
      sq[i \in 0..Len(b)] == IF i = 0 THEN 0 ELSE sq[i - 1] + b[i] * b[i]
  IN ~(4 * sq[Len(b)] < Len(b))

\* C16: for a frame that passes the silence check autoCorrelate returns
\* sampleRate / L for the smallest of the qualifying lags whose correlation
\* is the greatest, and -1 exactly when no lag qualifies.
C16_SmallestBestLag ==
  (acResult.status = "returned" /\ PassesSilenceCheck) =>
    /\ QualifyingLags = {} <=> acResult.hz = -100
    /\ QualifyingLags # {} =>
         \E L \in QualifyingLags :
           /\ \A K \in QualifyingLags : LagSum(L) <= LagSum(K)
           /\ \A K \in QualifyingLags : LagSum(K) = LagSum(L) => L <= K
           /\ acResult.hz = (2 * frame.sampleRate * 100 + L) \div (2 * L)

C16_Witness ==
  /\ acResult.status = "returned"
  /\ PassesSilenceCheck
  /\ \E K, L \in QualifyingLags :
       K < L /\ LagSum(L) < LagSum(K)
         /\ acResult.hz = (2 * frame.sampleRate * 100 + L) \div (2 * L)

\* C17: for an all-zero frame of any length, 0 and 1 included,
\* autoCorrelate returns -1.
C17_SilenceGivesNoPitch ==
  (acResult.status = "returned"
     /\ \A i \in 1..Len(frame.buffer) : frame.buffer[i] = 0)
    => acResult.hz = -100

C17_Witness ==
  /\ acResult.status = "returned"
  /\ Len(frame.buffer) = MaxFrameLength
  /\ \A i \in 1..Len(frame.buffer) : frame.buffer[i] = 0
  /\ acResult.hz = -100

\* C18: every note number the player hands to instrument.play and every
\* pitch the exporter writes into the track is a whole number from 0 to 127.
C18_NotesInMidiRange ==
  /\ \A r \in 1..Len(runs) :
       \A k \in 1..Len(runs[r].played) :
         \A n \in 1..Len(runs[r].played[k].midi) :
           runs[r].played[k].midi[n] \in 0..127
  /\ \A k \in 1..Len(track) :
       track[k].velocity # 0 =>
         \A n \in 1..Len(track[k].pitch) : track[k].pitch[n] \in 0..127

\* C19: when the pitch events carry a velocity computed from the peak
\* amplitude, every chord of the exported track has the velocity of one of
\* its events, min(127, round(amplitude * 127)), a number from 0 to 127.
C19_VelocityFromAmplitude ==
  (/\ genResult = "done"
   /\ pitchData # <<>>
   /\ pitchGroups = PitchGroups(pitchData)
   /\ \A e \in 1..Len(pitchData) : "velocity" \in DOMAIN pitchData[e]) =>
    \A k \in 1..Len(track) :
      track[k].velocity # 0 =>
        \E e \in 1..Len(pitchData) :
          /\ pitchData[e].velocity \in 0..127
          /\ track[k].velocity = pitchData[e].velocity

\* The result of an uninterrupted spectral scan of a buffer at a threshold.
UninterruptedScan(length, sampleRate, signal, threshold) ==
  LET positions == ScanPositions(0, length, fftSize, spectralHopSize)
  IN Flatten([k \in 1..Len(positions) |->
                SpectralFrame(positions[k], sampleRate, threshold,
                              MaximaAt(signal, positions[k]))])

C20_ScanAsCaptured ==
  scanned.by \in {"spectral", "auto"} =>
    scanned.published
      = UninterruptedScan(scanned.length, scanned.sampleRate, scanned.signal,
                          scanned.threshold)

C20_PublishedIsAScan ==
  (pitchData' # pitchData /\ pitchData' # <<>>) =>
    pitchData' = scanned'.published

\* C20: whatever happens at the yields of a spectral scan (another tab, a
\* new buffer, another sensitivity), the pitch events it publishes are those
\* of an uninterrupted scan of the buffer and at the sensitivity it started
\* with, in the same order.
C20_YieldsKeepOutput == []C20_ScanAsCaptured /\ [][C20_PublishedIsAScan]_vars

C20_Witness ==
  /\ scanned.by = "spectral"
  /\ scanned.unmounted
  /\ Len(scanned.frames) = 3
  /\ scanned.threshold = 200
  /\ scanned.signal = "chord"
  /\ pitchData = scanned.published
  /\ audioBuffer.signal = "onset"
  /\ sensitivity = 50

\* C21: a stretch of an auto-detection run whose effect has been cleaned up
\* leaves pitchData as it is, at a yield and at the end of the scan alike.
C21_CancelledRunNeverPublishes ==
  [][\A a \in 1..Len(autoRuns) :
       (autoRuns[a].cancelled /\ AutoResume(a)) => pitchData' = pitchData]_vars

C21_Witness ==
  /\ scanned.by = "auto"
  /\ scanned.outcome = "cancelled"
  /\ Len(scanned.frames) = 3
  /\ Len(scanned.published) > 0
  /\ pitchData # scanned.published

\* The contexts that are open and have not been asked to close.
LiveContexts ==
  {c \in 1..Len(contexts) :
     contexts[c].state # "closed" /\ ~contexts[c].closing}

\* C22: of the contexts utils/audioContext has created, at most one is open
\* and not being closed, and it is the shared one; the getAudioContext calls
\* since the last closeAudioContext have all returned the same context, and
\* none has returned a closed one.
C22_OneSharedContext ==
  /\ Cardinality(LiveContexts) <= 1
  /\ LiveContexts \subseteq {sharedAudioContext}
  /\ \A i, j \in 1..Len(gets) : gets[i].ctx = gets[j].ctx
  /\ \A i \in 1..Len(gets) : gets[i].state # "closed"

C22_Witness ==
  /\ Len(contexts) = 2
  /\ contexts[1].state = "closed"
  /\ Len(gets) = 2
  /\ gets[1].ctx = 2
  /\ sharedAudioContext = 2

\* C23: whenever autoCorrelate returns a pitch, the lag it has chosen is at
\* least 1 and the pitch is sampleRate / lag, finite and positive.
C23_NeverLagZero ==
  (acResult.status = "returned" /\ acResult.hz # NoPitch) =>
    /\ BestOffset(frame.buffer) >= 1
    /\ acResult.hz # InfiniteHz
    /\ acResult.hz > 0
    /\ acResult.hz
         = (2 * frame.sampleRate * 100 + BestOffset(frame.buffer))
             \div (2 * BestOffset(frame.buffer))

C23_Witness ==
  /\ acResult.status = "returned"
  /\ acResult.hz # NoPitch
  /\ BestOffset(frame.buffer) = 2
  /\ acResult.hz = 50 * frame.sampleRate

\* Whether the frequency at bin hi is within a tenth of a whole multiple
\* n > 1 of the frequency at bin lo.
RatioTest(hi, lo) ==
  LET n == (2 * hi + lo) \div (2 * lo)
      off == IF hi >= n * lo THEN hi - n * lo ELSE n * lo - hi
  IN 10 * off < lo /\ n > 1

\* The greedy reference on a set of bins: the lowest bin is taken next, and
\* kept iff it passes the ratio test against no bin kept so far.
RECURSIVE GreedyReference(_, _)
GreedyReference(bins, kept) ==
  IF bins = {} THEN kept
  ELSE LET lowest == CHOOSE b \in bins : \A c \in bins : b <= c
       IN GreedyReference(bins \ {lowest},
            IF \E k \in 1..Len(kept) : RatioTest(lowest, kept[k])
            THEN kept ELSE Append(kept, lowest))

PeakBins == {peaks[k].bin : k \in 1..Len(peaks)}

\* C24: filterHarmonics returns the peaks the greedy reference keeps, in
\* ascending frequency; a harmonic of an excluded peak only is kept, and so
\* is the lowest peak.
C24_GreedyReference ==
  peakStage = "filtered" =>
    /\ [k \in 1..Len(fundamentals) |-> fundamentals[k].bin]
         = GreedyReference(PeakBins, <<>>)
    /\ \A k \in 1..Len(fundamentals) :
         \E n \in 1..Len(peaks) : peaks[n] = fundamentals[k]
    /\ peaks # <<>> =>
         /\ fundamentals # <<>>
         /\ \A b \in PeakBins : fundamentals[1].bin <= b
    /\ \A b \in PeakBins :
         ((\E c \in PeakBins : c < b /\ RatioTest(b, c))
            /\ \A k \in 1..Len(fundamentals) :
                 ~(fundamentals[k].bin < b /\ RatioTest(b, fundamentals[k].bin)))
           => \E k \in 1..Len(fundamentals) : fundamentals[k].bin = b

C24_Witness ==
  /\ peakStage = "filtered"
  /\ PeakBins = {20, 40, 83}
  /\ Len(fundamentals) = 2
  /\ fundamentals[1].bin = 20
  /\ fundamentals[2].bin = 83

\* C30: what filterHarmonics returns is made of peaks of its input, in
\* strictly ascending frequency, and filterHarmonics returns it unchanged.
C30_FilterIdempotent ==
  peakStage = "filtered" =>
    /\ \A k \in 1..Len(fundamentals) :
         \E n \in 1..Len(peaks) : peaks[n] = fundamentals[k]
    /\ \A k \in 1..(Len(fundamentals) - 1) :
         fundamentals[k].bin < fundamentals[k + 1].bin
    /\ filterHarmonics(fundamentals) = fundamentals

C30_Witness ==
  /\ peakStage = "filtered"
  /\ Len(peaks) >= 3
  /\ Len(fundamentals) >= 2
  /\ Len(fundamentals) < Len(peaks)
  /\ peaks[1].bin > peaks[2].bin

\* C25: a playback run for which stopPlayback has been called makes no
\* further instrument.play call, whatever is started afterwards.
C25_StoppedRunPlaysNoMore ==
  [][\A r \in 1..Len(runs) :
       runs[r].stopRequested => runs'[r].played = runs[r].played]_vars

\* C26: while the App's isDetecting is true, an automatic run that has not
\* been cancelled is in flight: the one thing that sets isDetecting to false
\* is the end of such a run, so without one isDetecting stays true for good
\* unless another file is uploaded.
C26_DetectingHasARun ==
  appDetecting => \E a \in 1..Len(autoRuns) : ~autoRuns[a].cancelled

\* C27: a detection run that sets pitchData has scanned the buffer that is
\* the active one when it does so.
C27_PublishedFromActiveBuffer ==
  [][(pitchData' # pitchData /\ pitchData' # <<>>) =>
       /\ pitchData' = scanned'.published
       /\ scanned'.length = audioBuffer'.length
       /\ scanned'.sampleRate = audioBuffer'.sampleRate
       /\ scanned'.signal = audioBuffer'.signal]_vars

\* C28: a stopRecording call that ends never reports the pitches before the
\* audio, and when it ends with at least one pitch in pitchesRef.current
\* the App's pitchData is those pitches.
C28_AudioBeforePitches ==
  [][\A k \in 1..Len(stops), outcome \in DecodeOutcomes,
        buffer \in RecordedBuffers :
       FinishStop(k, outcome, buffer) =>
         LET pitches == IF stops[k].frozen THEN stops[k].pitches
                        ELSE pitchesRef
         IN /\ stopLog'.calls \in {<<>>, <<"onAudioRecorded">>,
                                  <<"onPitchesRecorded">>,
                                  <<"onAudioRecorded", "onPitchesRecorded">>}
            /\ Len(pitches) > 0 => pitchData' = pitches]_vars

\* A recording with a pitch has been stopped and decoded: both callbacks
\* were called and the pitches are the App's pitch data.
C28_Witness ==
  /\ stopLog.calls = <<"onAudioRecorded", "onPitchesRecorded">>
  /\ audioSource = "microphone"
  /\ audioBuffer.present
  /\ stops = <<>>
  /\ Len(pitchData) > 0
  /\ pitchData = pitchesRef

\* C29: during live playback a frame triggers a note exactly when its MIDI
\* note differs from currentNoteRef, after stopping the note that sounded;
\* a frame without a pitch in range leaves currentNoteRef null.
C29_TriggerRule ==
  [][\A l \in 1..Len(loops), hz \in MicHz :
       (Analyze(l, hz) /\ loops[l].live) =>
         LET inRange == hz > 5000 /\ hz < 100000
             midiNote == hzToMidi(hz)
             triggered == frameLog'.played # NullNote
         IN /\ triggered <=> (inRange /\ midiNote # currentNoteRef)
            /\ triggered => /\ frameLog'.played = midiNote
                            /\ currentNoteRef' = midiNote
                            /\ frameLog'.stopped <=> currentNoteRef # NullNote
            /\ ~inRange => currentNoteRef' = NullNote]_vars

\* C29: once recording has stopped, currentNoteRef is null: no note remains
\* marked as sounding.
C29_NoNoteAfterStop == ~isRecording => currentNoteRef = NullNote
====
